---- MODULE Spec2Model ----
(***************************************************************************)
(* State-machine model of src/components/resume_analyzer.py                *)
(* (class ResumeAnalyzer): the keyword/skill matcher, the document type    *)
(* classifier and the line-by-line section scan.  Texts are TLA+ strings,  *)
(* a character is a string of length one, and the Python string and regex  *)
(* primitives the code uses (lower, split, strip, in, re.sub, re.search    *)
(* with \b) are operators that compute what the primitives compute.        *)
(***************************************************************************)
EXTENDS Integers, Sequences, FiniteSets, TLC

VARIABLES
    op,               \* the method being executed
    pc,               \* position inside the method: "start", "loop", "done"
    text,             \* the text argument, as passed by the caller
    required_skills,  \* calculate_keyword_match: the required_skills argument
    lowered,          \* the method's local rebinding of the text (lower-cased, normalized)
    idx,              \* index of the next element the method's for-loop visits
    found_skills,     \* calculate_keyword_match: local list
    missing_skills,   \* calculate_keyword_match: local list
    scores,           \* detect_document_type: local dict, in insertion order
    lines,            \* extract_*: text.split("\n")
    in_section,       \* extract_*: the in_<section>_section flag
    current_entry,    \* extract_*: the accumulator
    blocks,           \* extract_*: the list that is returned
    result,           \* the value returned ("none" until the method returns)
    self_document_types, \* the instance attribute self.document_types
    calls,            \* number of calls made on the instance so far
    hash_order,       \* the iteration order this process gives to a set of strings
    skills_type,      \* calculate_keyword_match: Python type of required_skills
    format_score,     \* check_formatting: the local score
    deductions,       \* check_formatting: local list
    frames,           \* concurrent calls: the locals of each thread's call frame
    thread,           \* concurrent calls: the thread that is running
    history,          \* the calls that have returned: method, arguments, result
    world,            \* outside the process: which files exist, which external call fails
    events            \* what the process has done to the outside, in order

\* the variables no step of the single-call methods below writes
ext == <<self_document_types, calls, hash_order, skills_type, format_score, deductions, frames,
         thread, history, world, events>>

\* what is not a local of check_formatting
caller == <<self_document_types, calls, hash_order, skills_type, frames, thread, history,
            world, events>>

vars == <<op, pc, text, required_skills, lowered, idx, found_skills,
          missing_skills, scores, lines, in_section, current_entry, blocks, result,
          self_document_types, calls, hash_order, skills_type, format_score, deductions, frames,
          thread, history, world, events>>

-----------------------------------------------------------------------------
(* Bounds of the model *)

MaxKMPieces == 3
MaxSkills == 2
MaxDTPieces == 4
MaxTailLines == 2
MaxLines == 4
MaxCFPieces == 4
MaxCalls == 2

-----------------------------------------------------------------------------
(* Python string primitives *)

Ch(s, i) == SubSeq(s, i, i)

LowerLetters == "abcdefghijklmnopqrstuvwxyz"
UpperLetters == "ABCDEFGHIJKLMNOPQRSTUVWXYZ"
Digits == "0123456789"

CharsOf(s) == { Ch(s, i) : i \in 1..Len(s) }

UpperChars == CharsOf(UpperLetters)

\* str.lower() on one upper-case letter
LowerOf ==
    [c \in UpperChars |->
        Ch(LowerLetters, CHOOSE i \in 1..Len(UpperLetters) : Ch(UpperLetters, i) = c)]

\* one character of str.lower()
LowerChar(c) == IF c \in UpperChars THEN LowerOf[c] ELSE c

\* str.lower(): every character lowered, the string taken in halves
RECURSIVE Lower(_)
Lower(s) ==
    IF Len(s) = 0 THEN ""
    ELSE IF Len(s) = 1 THEN LowerChar(s)
    ELSE LET half == Len(s) \div 2
         IN Lower(SubSeq(s, 1, half)) \o Lower(SubSeq(s, half + 1, Len(s)))

\* Python's  sub in s
Contains(sub, s) ==
    \E i \in 1..(Len(s) - Len(sub) + 1) : SubSeq(s, i, i + Len(sub) - 1) = sub

WordChars == CharsOf(LowerLetters) \cup CharsOf(UpperLetters) \cup CharsOf(Digits) \cup {"_"}

\* the regex class \w on the characters of the model
IsWordChar(c) == c \in WordChars

\* the regex assertion \b at the position after the first p characters of s
WordBoundary(s, p) ==
    LET before == p >= 1 /\ IsWordChar(Ch(s, p))
        after  == p < Len(s) /\ IsWordChar(Ch(s, p + 1))
    IN before # after

\* re.search(rf"\b{re.escape(lit)}\b", s) is not None
SearchWholeWord(lit, s) ==
    \E i \in 1..(Len(s) - Len(lit) + 1) :
        /\ SubSeq(s, i, i + Len(lit) - 1) = lit
        /\ WordBoundary(s, i - 1)
        /\ WordBoundary(s, i + Len(lit) - 1)

\* re.sub(r"[-_/]", " ", s)
RECURSIVE NormalizeSeparators(_)
NormalizeSeparators(s) ==
    IF s = "" THEN ""
    ELSE (IF Ch(s, 1) \in {"-", "_", "/"} THEN " " ELSE Ch(s, 1))
         \o NormalizeSeparators(SubSeq(s, 2, Len(s)))

\* str.isspace() on one character of the model
IsSpace(c) == c \in {" ", "\t", "\n", "\r", "\f"}

\* len(s.split()): the number of maximal runs of non-whitespace characters
WordCount(s) ==
    Cardinality({ i \in 1..Len(s) :
                    /\ ~IsSpace(Ch(s, i))
                    /\ (i = 1 \/ IsSpace(Ch(s, i - 1))) })

\* str.strip()
RECURSIVE LStrip(_)
LStrip(s) == IF s # "" /\ IsSpace(Ch(s, 1)) THEN LStrip(SubSeq(s, 2, Len(s))) ELSE s

RECURSIVE RStrip(_)
RStrip(s) == IF s # "" /\ IsSpace(Ch(s, Len(s))) THEN RStrip(SubSeq(s, 1, Len(s) - 1)) ELSE s

Strip(s) == RStrip(LStrip(s))

\* s.split("\n"): the pieces between the newlines, one more than there are newlines
RECURSIVE SplitLines(_)
SplitLines(s) ==
    IF \E i \in 1..Len(s) : Ch(s, i) = "\n"
    THEN LET n == CHOOSE i \in 1..Len(s) :
                    /\ Ch(s, i) = "\n"
                    /\ \A j \in 1..(i - 1) : Ch(s, j) # "\n"
         IN <<SubSeq(s, 1, n - 1)>> \o SplitLines(SubSeq(s, n + 1, Len(s)))
    ELSE <<s>>

\* " ".join(items)
RECURSIVE JoinSpace(_)
JoinSpace(items) ==
    IF items = <<>> THEN ""
    ELSE IF Len(items) = 1 THEN Head(items)
    ELSE Head(items) \o " " \o JoinSpace(Tail(items))

\* the concatenation of a sequence of strings
RECURSIVE Concat(_)
Concat(ps) == IF ps = <<>> THEN "" ELSE Head(ps) \o Concat(Tail(ps))

SeqsUpTo(S, n) == UNION { [1..k -> S] : k \in 0..n }

-----------------------------------------------------------------------------
(* __init__: self.document_types, in declaration (= dict iteration) order *)

document_types == <<
    [name |-> "resume",
     keywords |-> <<"experience", "education", "skills", "work", "project", "objective",
                    "summary", "employment", "qualification", "achievements">>],
    [name |-> "marksheet",
     keywords |-> <<"grade", "marks", "score", "semester", "cgpa", "sgpa", "examination",
                    "result", "academic year", "percentage">>],
    [name |-> "certificate",
     keywords |-> <<"certificate", "certification", "awarded", "completed", "achievement",
                    "training", "course completion", "qualified">>],
    [name |-> "id card",
     keywords |-> <<"id card", "identity", "student id", "employee id", "valid until",
                    "date of issue", "identification">> ] >>

UnknownLabel == "Unknown document type"

\* a fresh instance in a fresh process, one call, a list argument
\* the methods of ResumeAnalyzer touch nothing outside the process
NoWorld == [kind |-> "none"]

InitExt ==
    /\ self_document_types = document_types
    /\ calls = 1
    /\ hash_order = "insertion"
    /\ skills_type = "list"
    /\ format_score = 0
    /\ deductions = <<>>
    /\ frames = <<>>
    /\ thread = 1
    /\ history = <<>>
    /\ world = NoWorld
    /\ events = <<>>

-----------------------------------------------------------------------------
(* calculate_keyword_match(resume_text, required_skills) *)

\* a score is the exact rational num/den; den = 0 stands for the
\* ZeroDivisionError that a division by zero raises
Ratio(n, d) == [num |-> n, den |-> d]

\* lines 53-56: the text the skills are searched in
MatchText(t) == NormalizeSeparators(Lower(t))

\* lines 62-68: one iteration of the loop; the two lists after it
ClassifySkillDropMissing(skill, resume_text, found, missing) ==
    IF SearchWholeWord(Lower(skill), resume_text)
    THEN [found |-> Append(found, skill), missing |-> missing]
    ELSE [found |-> found, missing |-> missing]

ClassifySkill(skill, resume_text, found, missing) ==
    IF SearchWholeWord(Lower(skill), resume_text)
    THEN [found |-> Append(found, skill), missing |-> missing]
    ELSE [found |-> found, missing |-> Append(missing, skill)]

\* line 70
MatchScoreOfMissing(found, missing, required) ==
    IF Len(required) > 0 THEN Ratio(Len(missing) * 100, Len(required)) ELSE Ratio(0, 1)

MatchScoreUnguarded(found, missing, required) ==
    Ratio(Len(found) * 100, Len(required))

MatchScore(found, missing, required) ==
    IF Len(required) > 0 THEN Ratio(Len(found) * 100, Len(required)) ELSE Ratio(0, 1)

KMPieces == {"Java", "Script", " ", "_", "C++"}
KMSkills == {"Java", "Java Script", "C++", "java-script"}

KMTexts == { Concat(ps) : ps \in SeqsUpTo(KMPieces, MaxKMPieces) }

InitKM ==
    /\ op = "calculate_keyword_match"
    /\ pc = "start"
    /\ text \in KMTexts
    /\ required_skills \in SeqsUpTo(KMSkills, MaxSkills)
    /\ lowered = ""
    /\ idx = 0
    /\ found_skills = <<>>
    /\ missing_skills = <<>>
    /\ scores = <<>>
    /\ lines = <<>>
    /\ in_section = FALSE
    /\ current_entry = <<>>
    /\ blocks = <<>>
    /\ result = "none"
    /\ InitExt

\* lines 53-59
KMStart ==
    /\ op = "calculate_keyword_match" /\ pc = "start"
    /\ lowered' = MatchText(text)
    /\ found_skills' = <<>>
    /\ missing_skills' = <<>>
    /\ idx' = 1
    /\ pc' = "loop"
    /\ UNCHANGED <<op, text, required_skills, scores, lines, in_section,
                   current_entry, blocks, result>>
    /\ UNCHANGED ext

\* an element of required_skills that is not a string (None, a number)
NotAString == "<not a string>"

\* lines 61-68
KMLoop ==
    /\ op = "calculate_keyword_match" /\ pc = "loop"
    /\ idx <= Len(required_skills)
    /\ required_skills[idx] # NotAString
    /\ LET r == ClassifySkill(required_skills[idx], lowered, found_skills, missing_skills)
       IN /\ found_skills' = r.found
          /\ missing_skills' = r.missing
    /\ idx' = idx + 1
    /\ UNCHANGED <<op, pc, text, required_skills, lowered, scores, lines,
                   in_section, current_entry, blocks, result>>
    /\ UNCHANGED ext

\* lines 70-76
KMReturn ==
    /\ op = "calculate_keyword_match" /\ pc = "loop"
    /\ idx > Len(required_skills)
    /\ result' = [score |-> MatchScore(found_skills, missing_skills, required_skills),
                  found_skills |-> found_skills,
                  missing_skills |-> missing_skills]
    /\ pc' = "done"
    /\ UNCHANGED <<op, text, required_skills, lowered, idx, found_skills,
                   missing_skills, scores, lines, in_section, current_entry, blocks>>
    /\ UNCHANGED ext

\* line 62: skill.lower() on an element without that method raises
\* AttributeError, which ends the call
KMRaise ==
    /\ op = "calculate_keyword_match" /\ pc = "loop"
    /\ idx <= Len(required_skills)
    /\ required_skills[idx] = NotAString
    /\ result' = [error |-> "AttributeError"]
    /\ pc' = "done"
    /\ UNCHANGED <<op, text, required_skills, lowered, idx, found_skills,
                   missing_skills, scores, lines, in_section, current_entry, blocks>>
    /\ UNCHANGED ext

NextKM == KMStart \/ KMLoop \/ KMReturn

SpecKM == InitKM /\ [][NextKM]_vars

KMDone == op = "calculate_keyword_match" /\ pc = "done"

-----------------------------------------------------------------------------
(* Claims about calculate_keyword_match, checked under SpecKM *)

Range(f) == { f[i] : i \in DOMAIN f }
Count(f, x) == Cardinality({ i \in DOMAIN f : f[i] = x })

\* C1: for a non-empty required_skills list, found_skills and missing_skills
\* partition the input: their lengths add up to len(required_skills), no skill
\* is in both, and every required skill is in exactly one of them (as often
\* as it occurs in the input).
C1_Partition ==
    (KMDone /\ Len(required_skills) > 0) =>
        /\ Len(result.found_skills) + Len(result.missing_skills) = Len(required_skills)
        /\ Range(result.found_skills) \cap Range(result.missing_skills) = {}
        /\ \A i \in DOMAIN required_skills :
              LET s == required_skills[i]
              IN /\ s \in Range(result.found_skills) \cup Range(result.missing_skills)
                 /\ Count(result.found_skills, s) + Count(result.missing_skills, s)
                       = Count(required_skills, s)

C1_Witness ==
    /\ KMDone
    /\ Len(result.found_skills) > 0
    /\ Len(result.missing_skills) > 0

\* C2: for a non-empty required_skills list the score is
\* (number of found skills / number of required skills) x 100, lies in
\* [0, 100], is 100 exactly when missing_skills is empty and 0 exactly when
\* found_skills is empty.
C2_Score ==
    (KMDone /\ Len(required_skills) > 0) =>
        LET sc == result.score
        IN /\ sc.den > 0
           /\ sc.num * Len(required_skills) = 100 * Len(result.found_skills) * sc.den
           /\ 0 <= sc.num /\ sc.num <= 100 * sc.den
           /\ (sc.num = 100 * sc.den) <=> (result.missing_skills = <<>>)
           /\ (sc.num = 0) <=> (result.found_skills = <<>>)

C2_Witness ==
    /\ KMDone
    /\ Len(required_skills) > 0
    /\ 0 < result.score.num
    /\ result.score.num < 100 * result.score.den

\* C3: with an empty required_skills list the call returns score 0 and empty
\* found_skills and missing_skills for any text, and no division by zero
\* happens.
C3_EmptySkills ==
    (KMDone /\ required_skills = <<>>) =>
        /\ result.score.den # 0
        /\ result.score.num = 0
        /\ result.found_skills = <<>>
        /\ result.missing_skills = <<>>

C3_Witness ==
    /\ KMDone
    /\ required_skills = <<>>
    /\ Contains("Java", text)

\* lit occurs in s with a non-word character, or an end of s, on both sides
OccursBounded(lit, s) ==
    \E i \in 1..(Len(s) - Len(lit) + 1) :
        /\ SubSeq(s, i, i + Len(lit) - 1) = lit
        /\ (i = 1 \/ ~IsWordChar(Ch(s, i - 1)))
        /\ (i + Len(lit) - 1 = Len(s) \/ ~IsWordChar(Ch(s, i + Len(lit))))

\* C4: a required skill is reported found if and only if the skill phrase
\* occurs in the (lower-cased, separator-normalized) text, case-insensitively,
\* with a non-word character or an end of the text on both sides.
C4_WholeWordIff ==
    KMDone =>
        \A i \in DOMAIN required_skills :
            (required_skills[i] \in Range(result.found_skills))
                <=> OccursBounded(Lower(required_skills[i]), MatchText(text))

HasSeparator(s) == \E i \in 1..Len(s) : Ch(s, i) \in {"-", "_", "/", " "}

\* C5: a required skill written with a hyphen, underscore, slash or space
\* between its words is reported found whenever the text contains the same
\* words joined by any of those separators.
C5_SeparatorInsensitive ==
    KMDone =>
        \A i \in DOMAIN required_skills :
            ( /\ HasSeparator(required_skills[i])
              /\ SearchWholeWord(MatchText(required_skills[i]), MatchText(text)) )
                => required_skills[i] \in Range(result.found_skills)

-----------------------------------------------------------------------------
(* detect_document_type(text) *)

\* the float literals 0.7, 0.3 (in tenths) and 0.15 (in hundredths)
DensityWeight == 7
FrequencyWeight == 3
Threshold == 15

\* a < b for exact rationals with positive denominators
RatLess(a, b) == a.num * b.den < b.num * a.den

\* line 38: the test  keyword in text
KeywordPresentWholeWord(keyword, t) == SearchWholeWord(keyword, t)

KeywordPresent(keyword, t) == Contains(keyword, t)

\* line 38: sum(1 for keyword in keywords if keyword in text)
MatchCount(keywords, t) ==
    Cardinality({ k \in DOMAIN keywords : KeywordPresent(keywords[k], t) })

\* the score with a frequency of matches / len(text.split()), without the + 1
CompositeScoreNoPlusOne(matches, nkeywords, nwords) ==
    Ratio(DensityWeight * matches * nwords + FrequencyWeight * matches * nkeywords,
          10 * nkeywords * nwords)

\* lines 39-41: density * 0.7 + frequency * 0.3, as an exact rational
\*   m/b * 7/10 + m/(w+1) * 3/10 = (7*m*(w+1) + 3*m*b) / (10*b*(w+1))
CompositeScore(matches, nkeywords, nwords) ==
    Ratio(DensityWeight * matches * (nwords + 1) + FrequencyWeight * matches * nkeywords,
          10 * nkeywords * (nwords + 1))

\* line 44: max(scores.items(), key=lambda x: x[1]) returns the first maximal item
RECURSIVE PyMaxLastFrom(_, _)
PyMaxLastFrom(items, best) ==
    IF items = <<>> THEN best
    ELSE PyMaxLastFrom(Tail(items),
                       IF RatLess(Head(items).score, best.score) THEN best ELSE Head(items))

PyMaxLast(items) == PyMaxLastFrom(Tail(items), Head(items))

RECURSIVE PyMaxFrom(_, _)
PyMaxFrom(items, best) ==
    IF items = <<>> THEN best
    ELSE PyMaxFrom(Tail(items),
                   IF RatLess(best.score, Head(items).score) THEN Head(items) ELSE best)

PyMax(items) == PyMaxFrom(Tail(items), Head(items))

\* line 47
BestOrUnknownNoThreshold(best_match) == best_match.doc_type

BestOrUnknownOtherLabel(best_match) ==
    IF RatLess(Ratio(Threshold, 100), best_match.score) THEN best_match.doc_type ELSE "Unknown"

BestOrUnknown(best_match) ==
    IF RatLess(Ratio(Threshold, 100), best_match.score)
    THEN best_match.doc_type
    ELSE UnknownLabel

DTPieces == {"a b ", " ", "work", "net", "Grade ", "identity "}

DTTexts == { Concat(ps) : ps \in SeqsUpTo(DTPieces, MaxDTPieces) }

InitDT ==
    /\ op = "detect_document_type"
    /\ pc = "start"
    /\ text \in DTTexts
    /\ required_skills = <<>>
    /\ lowered = ""
    /\ idx = 0
    /\ found_skills = <<>>
    /\ missing_skills = <<>>
    /\ scores = <<>>
    /\ lines = <<>>
    /\ in_section = FALSE
    /\ current_entry = <<>>
    /\ blocks = <<>>
    /\ result = "none"
    /\ InitExt

\* lines 33-34
DTStart ==
    /\ op = "detect_document_type" /\ pc = "start"
    /\ lowered' = Lower(text)
    /\ scores' = <<>>
    /\ idx' = 1
    /\ pc' = "loop"
    /\ UNCHANGED <<op, text, required_skills, found_skills, missing_skills, lines,
                   in_section, current_entry, blocks, result>>
    /\ UNCHANGED ext

\* lines 37-41: one iteration; matches is kept beside the score it yields
DTLoop ==
    /\ op = "detect_document_type" /\ pc = "loop"
    /\ idx <= Len(self_document_types)
    /\ LET keywords == self_document_types[idx].keywords
           matches == MatchCount(keywords, lowered)
       IN scores' = Append(scores,
                           [doc_type |-> self_document_types[idx].name,
                            matches |-> matches,
                            score |-> CompositeScore(matches, Len(keywords),
                                                     WordCount(lowered))])
    /\ idx' = idx + 1
    /\ UNCHANGED <<op, pc, text, required_skills, lowered, found_skills, missing_skills,
                   lines, in_section, current_entry, blocks, result>>
    /\ UNCHANGED ext

\* lines 44-47
DTReturn ==
    /\ op = "detect_document_type" /\ pc = "loop"
    /\ idx > Len(self_document_types)
    /\ result' = BestOrUnknown(PyMax(scores))
    /\ pc' = "done"
    /\ UNCHANGED <<op, text, required_skills, lowered, idx, found_skills, missing_skills,
                   scores, lines, in_section, current_entry, blocks>>
    /\ UNCHANGED ext

NextDT == DTStart \/ DTLoop \/ DTReturn

SpecDT == InitDT /\ [][NextDT]_vars

DTDone == op = "detect_document_type" /\ pc = "done"

-----------------------------------------------------------------------------
(* Claims about detect_document_type, checked under SpecDT *)

AllKeywords == UNION { Range(document_types[k].keywords) : k \in DOMAIN document_types }

NoKeywordIn(t) == \A kw \in AllKeywords : ~Contains(kw, Lower(t))

AllWhitespace(t) == \A i \in 1..Len(t) : IsSpace(Ch(t, i))

\* C6: a text that contains none of the keywords of the four bags, in
\* particular the empty string and every whitespace-only text, is labelled
\* unknown, and every type's composite score is 0.
C6_NoKeywordUnknown ==
    DTDone =>
        /\ NoKeywordIn(text) =>
              /\ result = UnknownLabel
              /\ \A k \in DOMAIN scores : scores[k].score.num = 0
        /\ AllWhitespace(text) => result = UnknownLabel

C6_Witness ==
    /\ DTDone
    /\ NoKeywordIn(text)
    /\ WordCount(text) > 0
    /\ result = UnknownLabel

\* the values the code uses for the labels resume, marksheet, certificate,
\* id_card and unknown
DocumentTypeLabels == {"resume", "marksheet", "certificate", "id card", UnknownLabel}

\* C7: the value returned by detect_document_type is one of the five labels
\* of the fixed enumerated set, for every text.
C7_LabelSet == DTDone => result \in DocumentTypeLabels

C7_Witness ==
    /\ DTDone
    /\ result = "id card"

\* the number of keywords of a bag that occur in t as whole words
WholeWordMatches(keywords, t) ==
    Cardinality({ k \in DOMAIN keywords : OccursBounded(keywords[k], t) })

\* the number of keywords of a bag that occur in t as substrings
SubstringMatches(keywords, t) ==
    Cardinality({ k \in DOMAIN keywords : Contains(keywords[k], t) })

\* C8 as claimed: a keyword counts towards a type's matches only when it is
\* present in the lower-cased text as a whole word.
C8_WholeWordOnly ==
    DTDone =>
        \A k \in DOMAIN scores :
            scores[k].matches = WholeWordMatches(document_types[k].keywords, Lower(text))

\* C8 as amended: a keyword counts towards a type's matches exactly when it
\* occurs in the lower-cased text as a substring, inside a longer word too.
C8_SubstringMatches ==
    DTDone =>
        \A k \in DOMAIN scores :
            scores[k].matches = SubstringMatches(document_types[k].keywords, Lower(text))

C8_Witness ==
    /\ DTDone
    /\ \E k \in DOMAIN scores :
          /\ scores[k].matches > 0
          /\ WholeWordMatches(document_types[k].keywords, Lower(text)) = 0

\* 10*b*(w+1) * score = 7*m*(w+1) + 3*m*b, i.e. score = 0.7*(m/b) + 0.3*(m/(w+1))
IsComposite(score, m, b, w) ==
    /\ score.den > 0
    /\ score.num * (10 * b * (w + 1)) = (7 * m * (w + 1) + 3 * m * b) * score.den

\* score <= 0.15
AtMostThreshold(score) == score.num * 100 <= 15 * score.den

-----------------------------------------------------------------------------
(* extract_experience(text): the line-by-line section scan *)

experience_keywords == <<
    "experience", "employment", "work history", "professional experience",
    "work experience", "career history", "professional background",
    "employment history", "job history", "positions held", "job title",
    "job responsibilities", "job description", "job summary" >>

education_keywords == <<
    "education", "academic", "qualification", "degree", "university", "college",
    "school", "institute", "certification", "diploma", "bachelor", "master",
    "phd", "b.tech", "m.tech", "b.e", "m.e", "b.sc", "m.sc", "bca", "mca", "b.com",
    "m.com", "b.cs-it", "imca", "bba", "mba", "honors", "scholarship" >>

project_keywords == <<
    "projects", "personal projects", "academic projects", "key projects",
    "major projects", "professional projects", "project experience",
    "relevant projects", "featured projects", "latest projects",
    "top projects" >>

skills_keywords == <<
    "skills", "technical skills", "competencies", "expertise",
    "core competencies", "professional skills", "key skills",
    "technical expertise", "proficiencies", "qualifications",
    "top skills", "key skill", "major skill", "personal skill",
    "soft skills", "soft skill", "soft skillset" >>

summary_keywords == <<
    "summary", "professional summary", "career summary", "objective",
    "career objective", "professional objective", "about me", "profile",
    "professional profile", "career profile", "overview", "skill summary" >>

\* line 367, the separators that are ASCII characters; the others (bullet,
\* middle dot, en dash, horizontal bar) occur in no text of the model, and a
\* separator that is not in the text is skipped by line 390
separators == <<",", "|", "/", "\\", ">", "-">>

SeqRange(q) == { q[k] : k \in DOMAIN q }

\* keyword.lower(), looked up in a table for the keywords of the fixed lists
LoweredKeywords ==
    [kw \in SeqRange(experience_keywords) \cup SeqRange(education_keywords)
              \cup SeqRange(project_keywords) \cup SeqRange(skills_keywords)
              \cup SeqRange(summary_keywords) \cup SeqRange(document_types[1].keywords)
        |-> Lower(kw)]

KeywordLower(kw) == IF kw \in DOMAIN LoweredKeywords THEN LoweredKeywords[kw] ELSE Lower(kw)

\* any(keyword.lower() in line.lower() for keyword in keywords)
AnyKeywordIn(keywords, line) ==
    LET low == Lower(line)
    IN \E k \in DOMAIN keywords : Contains(KeywordLower(keywords[k]), low)

\* any(keyword.lower() == line.lower() for keyword in keywords)
AnyKeywordIs(keywords, line) ==
    LET low == Lower(line)
    IN \E k \in DOMAIN keywords : KeywordLower(keywords[k]) = low

\* the loop body with a closing line that stays in the accumulator
ScanLineClosingLineKept(keywords, st, rawline) ==
    LET line == Strip(rawline)
        own == AnyKeywordIn(keywords, line)
    IN IF own
       THEN [st EXCEPT !.in_section = TRUE,
                       !.current_entry = IF ~AnyKeywordIs(keywords, line)
                                         THEN Append(@, line) ELSE @]
       ELSE IF ~st.in_section THEN st
       ELSE IF line # "" /\ AnyKeywordIn(self_document_types[1].keywords, line)
            THEN [st EXCEPT !.in_section = FALSE,
                            !.current_entry = <<line>>,
                            !.blocks = IF st.current_entry # <<>>
                                       THEN Append(@, JoinSpace(st.current_entry)) ELSE @]
       ELSE IF line # "" THEN [st EXCEPT !.current_entry = Append(@, line)]
       ELSE IF st.current_entry # <<>>
            THEN [st EXCEPT !.blocks = Append(@, JoinSpace(st.current_entry)),
                            !.current_entry = <<>>]
       ELSE st

\* the loop body with a blank line that does not end the block
ScanLineBlankKeepsBlock(keywords, st, rawline) ==
    LET line == Strip(rawline)
        own == AnyKeywordIn(keywords, line)
    IN IF own
       THEN [st EXCEPT !.in_section = TRUE,
                       !.current_entry = IF ~AnyKeywordIs(keywords, line)
                                         THEN Append(@, line) ELSE @]
       ELSE IF ~st.in_section THEN st
       ELSE IF line # "" /\ AnyKeywordIn(self_document_types[1].keywords, line)
            THEN [st EXCEPT !.in_section = FALSE,
                            !.current_entry = <<>>,
                            !.blocks = IF st.current_entry # <<>>
                                       THEN Append(@, JoinSpace(st.current_entry)) ELSE @]
       ELSE IF line # "" THEN [st EXCEPT !.current_entry = Append(@, line)]
       ELSE st

\* the loop body with every keyword line appended, a bare header too
ScanLineHeaderAppended(keywords, st, rawline) ==
    LET line == Strip(rawline)
        own == AnyKeywordIn(keywords, line)
    IN IF own
       THEN [st EXCEPT !.in_section = TRUE,
                       !.current_entry = Append(@, line)]
       ELSE IF ~st.in_section THEN st
       ELSE IF line # "" /\ AnyKeywordIn(self_document_types[1].keywords, line)
            THEN [st EXCEPT !.in_section = FALSE,
                            !.current_entry = <<>>,
                            !.blocks = IF st.current_entry # <<>>
                                       THEN Append(@, JoinSpace(st.current_entry)) ELSE @]
       ELSE IF line # "" THEN [st EXCEPT !.current_entry = Append(@, line)]
       ELSE IF st.current_entry # <<>>
            THEN [st EXCEPT !.blocks = Append(@, JoinSpace(st.current_entry)),
                            !.current_entry = <<>>]
       ELSE st

\* the loop body with a closing line that empties the accumulator without
\* making a block of it
ScanLineClosingDrops(keywords, st, rawline) ==
    LET line == Strip(rawline)
        own == AnyKeywordIn(keywords, line)
    IN IF own
       THEN [st EXCEPT !.in_section = TRUE,
                       !.current_entry = IF ~AnyKeywordIs(keywords, line)
                                         THEN Append(@, line) ELSE @]
       ELSE IF ~st.in_section THEN st
       ELSE IF line # "" /\ AnyKeywordIn(self_document_types[1].keywords, line)
            THEN [st EXCEPT !.in_section = FALSE, !.current_entry = <<>>]
       ELSE IF line # "" THEN [st EXCEPT !.current_entry = Append(@, line)]
       ELSE IF st.current_entry # <<>>
            THEN [st EXCEPT !.blocks = Append(@, JoinSpace(st.current_entry)),
                            !.current_entry = <<>>]
       ELSE st

\* the loop body with a blank line that makes a block of the accumulator even
\* when it is empty
ScanLineFlushesEmpty(keywords, st, rawline) ==
    LET line == Strip(rawline)
        own == AnyKeywordIn(keywords, line)
    IN IF own
       THEN [st EXCEPT !.in_section = TRUE,
                       !.current_entry = IF ~AnyKeywordIs(keywords, line)
                                         THEN Append(@, line) ELSE @]
       ELSE IF ~st.in_section THEN st
       ELSE IF line # "" /\ AnyKeywordIn(self_document_types[1].keywords, line)
            THEN [st EXCEPT !.in_section = FALSE,
                            !.current_entry = <<>>,
                            !.blocks = IF st.current_entry # <<>>
                                       THEN Append(@, JoinSpace(st.current_entry)) ELSE @]
       ELSE IF line # "" THEN [st EXCEPT !.current_entry = Append(@, line)]
       ELSE [st EXCEPT !.blocks = Append(@, JoinSpace(st.current_entry)),
                       !.current_entry = <<>>]

\* lines 271-297: the body of the for-loop for one line; st is the record of
\* the locals in_section, current_entry and blocks, and the result is st after
\* the iteration
ScanLineStayInside(keywords, st, rawline) ==
    LET line == Strip(rawline)
        own == AnyKeywordIn(keywords, line)
    IN IF own
       THEN [st EXCEPT !.in_section = TRUE,
                       !.current_entry = IF ~AnyKeywordIs(keywords, line)
                                         THEN Append(@, line) ELSE @]
       ELSE IF ~st.in_section THEN st
       ELSE IF /\ line # ""
               /\ AnyKeywordIn(self_document_types[1].keywords, line)
               /\ ~own
            THEN [st EXCEPT !.current_entry = <<>>,
                            !.blocks = IF st.current_entry # <<>>
                                       THEN Append(@, JoinSpace(st.current_entry)) ELSE @]
       ELSE IF line # "" THEN [st EXCEPT !.current_entry = Append(@, line)]
       ELSE IF st.current_entry # <<>>
            THEN [st EXCEPT !.blocks = Append(@, JoinSpace(st.current_entry)),
                            !.current_entry = <<>>]
       ELSE st

ScanLine(keywords, st, rawline) ==
    LET line == Strip(rawline)
        own == AnyKeywordIn(keywords, line)
    IN IF own
       THEN [st EXCEPT !.in_section = TRUE,
                       !.current_entry = IF ~AnyKeywordIs(keywords, line)
                                         THEN Append(@, line) ELSE @]
       ELSE IF ~st.in_section THEN st
       ELSE IF /\ line # ""
               /\ AnyKeywordIn(self_document_types[1].keywords, line)
               /\ ~own
            THEN [st EXCEPT !.in_section = FALSE,
                            !.current_entry = <<>>,
                            !.blocks = IF st.current_entry # <<>>
                                       THEN Append(@, JoinSpace(st.current_entry)) ELSE @]
       ELSE IF line # "" THEN [st EXCEPT !.current_entry = Append(@, line)]
       ELSE IF st.current_entry # <<>>
            THEN [st EXCEPT !.blocks = Append(@, JoinSpace(st.current_entry)),
                            !.current_entry = <<>>]
       ELSE st

\* the end of the text without the flush of lines 299-302
FinalBlocksNoFlush(entry, bs) == bs

\* lines 299-302: the flush at the end of the text
FinalBlocks(entry, bs) == IF entry # <<>> THEN Append(bs, JoinSpace(entry)) ELSE bs

\* documents of the shape: an EXPERIENCE header, three non-blank lines, a blank
\* line, an EDUCATION header, then up to MaxTailLines further lines
RTBodyLines == {"Acme", " Dev ", "network", "Work history 2 yrs", "Employment"}
RTBlankLines == {"", " "}
RTTailLines == {"MIT", "Teaching experience", ""}

RECURSIVE TailText(_)
TailText(ls) == IF ls = <<>> THEN "" ELSE "\n" \o Head(ls) \o TailText(Tail(ls))

RTTexts ==
    { "EXPERIENCE\n" \o b[1] \o "\n" \o b[2] \o "\n" \o b[3] \o "\n" \o blank
          \o "\nEDUCATION" \o TailText(t) :
        b \in [1..3 -> RTBodyLines], blank \in RTBlankLines,
        t \in SeqsUpTo(RTTailLines, MaxTailLines) }

InitRT ==
    /\ op = "extract_experience"
    /\ pc = "start"
    /\ text \in RTTexts
    /\ required_skills = <<>>
    /\ lowered = ""
    /\ idx = 0
    /\ found_skills = <<>>
    /\ missing_skills = <<>>
    /\ scores = <<>>
    /\ lines = <<>>
    /\ in_section = FALSE
    /\ current_entry = <<>>
    /\ blocks = <<>>
    /\ result = "none"
    /\ InitExt

\* lines 259-268
EXStart ==
    /\ op = "extract_experience" /\ pc = "start"
    /\ lines' = SplitLines(text)
    /\ blocks' = <<>>
    /\ in_section' = FALSE
    /\ current_entry' = <<>>
    /\ idx' = 1
    /\ pc' = "loop"
    /\ UNCHANGED <<op, text, required_skills, lowered, found_skills, missing_skills,
                   scores, result>>
    /\ UNCHANGED ext

\* lines 270-297
EXLoop ==
    /\ op = "extract_experience" /\ pc = "loop"
    /\ idx <= Len(lines)
    /\ LET st == ScanLine(experience_keywords,
                          [in_section |-> in_section,
                           current_entry |-> current_entry,
                           blocks |-> blocks],
                          lines[idx])
       IN /\ in_section' = st.in_section
          /\ current_entry' = st.current_entry
          /\ blocks' = st.blocks
    /\ idx' = idx + 1
    /\ UNCHANGED <<op, pc, text, required_skills, lowered, found_skills, missing_skills,
                   scores, lines, result>>
    /\ UNCHANGED ext

\* lines 299-302
EXReturn ==
    /\ op = "extract_experience" /\ pc = "loop"
    /\ idx > Len(lines)
    /\ blocks' = FinalBlocks(current_entry, blocks)
    /\ result' = blocks'
    /\ pc' = "done"
    /\ UNCHANGED <<op, text, required_skills, lowered, idx, found_skills, missing_skills,
                   scores, lines, in_section, current_entry>>
    /\ UNCHANGED ext

NextEX == EXStart \/ EXLoop \/ EXReturn

SpecRT == InitRT /\ [][NextEX]_vars

EXDone == op = "extract_experience" /\ pc = "done"

-----------------------------------------------------------------------------
(* Claims about extract_experience on the header/three lines/blank/header  *)
(* documents, checked under SpecRT                                         *)

\* the three lines after the EXPERIENCE header, and the lines after EDUCATION
BodyOf(t) == LET ls == SplitLines(t) IN SubSeq(ls, 2, 4)
TailOf(t) == LET ls == SplitLines(t) IN SubSeq(ls, 7, Len(ls))

ThreeLinesBlock(t) == JoinSpace([k \in 1..3 |-> Strip(BodyOf(t)[k])])

\* C10 as claimed: for any three non-blank lines and any further lines the
\* result is exactly one block, made of the three lines, and nothing at or
\* after the EDUCATION header is added to a block.
C10_AnyThreeLines == EXDone => result = <<ThreeLinesBlock(text)>>

\* a line the scan accumulates inside the section: it is not exactly an
\* experience keyword, and it holds no generic resume keyword unless it also
\* holds an experience keyword
Accumulated(line) ==
    /\ ~AnyKeywordIs(experience_keywords, Strip(line))
    /\ (AnyKeywordIn(experience_keywords, line)
          \/ ~AnyKeywordIn(document_types[1].keywords, line))

C10_Precondition ==
    /\ \A k \in 1..3 : Accumulated(BodyOf(text)[k])
    /\ \A k \in DOMAIN TailOf(text) : ~AnyKeywordIn(experience_keywords, TailOf(text)[k])

\* C10 as amended: when each of the three lines is one the scan accumulates
\* and no line after the EDUCATION header holds an experience keyword, the
\* result is exactly one block, made of the three trimmed lines.
C10_ThreePlainLines == (EXDone /\ C10_Precondition) => result = <<ThreeLinesBlock(text)>>

C10_Witness ==
    /\ EXDone
    /\ C10_Precondition
    /\ Len(TailOf(text)) > 0
    /\ \E k \in 1..3 : AnyKeywordIn(experience_keywords, BodyOf(text)[k])
    /\ result = <<ThreeLinesBlock(text)>>

-----------------------------------------------------------------------------
(* extract_education, extract_projects: the same scan as extract_experience *)
(* with the section's own keyword list                                      *)

\* a name bound to the list it was bound to in the call before
SameList(previous) == previous

\* lines 211, 220: name = [] binds the name to a new empty list, whatever it
\* was bound to before
NewList(previous) == <<>>

\* lines 211-220, 308-317
SectionStart(name) ==
    /\ op = name /\ pc = "start"
    /\ lines' = SplitLines(text)
    /\ blocks' = NewList(blocks)
    /\ in_section' = FALSE
    /\ current_entry' = NewList(current_entry)
    /\ idx' = 1
    /\ pc' = "loop"
    /\ UNCHANGED <<op, text, required_skills, lowered, found_skills, missing_skills,
                   scores, result>>
    /\ UNCHANGED ext

\* lines 222-248, 319-343
SectionLoop(name, keywords) ==
    /\ op = name /\ pc = "loop"
    /\ idx <= Len(lines)
    /\ LET st == ScanLine(keywords,
                          [in_section |-> in_section,
                           current_entry |-> current_entry,
                           blocks |-> blocks],
                          lines[idx])
       IN /\ in_section' = st.in_section
          /\ current_entry' = st.current_entry
          /\ blocks' = st.blocks
    /\ idx' = idx + 1
    /\ UNCHANGED <<op, pc, text, required_skills, lowered, found_skills, missing_skills,
                   scores, lines, result>>
    /\ UNCHANGED ext

\* lines 250-253, 345-348
SectionReturn(name) ==
    /\ op = name /\ pc = "loop"
    /\ idx > Len(lines)
    /\ blocks' = FinalBlocks(current_entry, blocks)
    /\ result' = blocks'
    /\ pc' = "done"
    /\ UNCHANGED <<op, text, required_skills, lowered, idx, found_skills, missing_skills,
                   scores, lines, in_section, current_entry>>
    /\ UNCHANGED ext

EDStart == SectionStart("extract_education")
EDLoop == SectionLoop("extract_education", education_keywords)
EDReturn == SectionReturn("extract_education")

PRStart == SectionStart("extract_projects")
PRLoop == SectionLoop("extract_projects", project_keywords)
PRReturn == SectionReturn("extract_projects")

-----------------------------------------------------------------------------
(* extract_skills(text) *)

\* s.split(c) for a separator c of one character
RECURSIVE SplitOn(_, _)
SplitOn(s, c) ==
    IF \E i \in 1..Len(s) : Ch(s, i) = c
    THEN LET n == CHOOSE i \in 1..Len(s) :
                    /\ Ch(s, i) = c
                    /\ \A j \in 1..(i - 1) : Ch(s, j) # c
         IN <<SubSeq(s, 1, n - 1)>> \o SplitOn(SubSeq(s, n + 1, Len(s)), c)
    ELSE <<s>>

\* set.update(items): the set is kept as the sequence of its elements in
\* order of first insertion
RECURSIVE SetUpdate(_, _)
SetUpdate(set, items) ==
    IF items = <<>> THEN set
    ELSE SetUpdate(IF \E k \in DOMAIN set : set[k] = Head(items)
                   THEN set ELSE Append(set, Head(items)),
                   Tail(items))

\* skill.strip() for skill in text_to_process.split(separator) if skill.strip()
StrippedPieces(t, separator) ==
    LET pieces == SplitOn(t, separator)
        stripped == [k \in DOMAIN pieces |-> Strip(pieces[k])]
    IN SelectSeq(stripped, LAMBDA x : x # "")

\* lines 387-392, 399-403, 408-411: the set after one entry was processed
RECURSIVE ProcessSeparators(_, _, _)
ProcessSeparators(skills, t, seps) ==
    IF seps = <<>> THEN skills
    ELSE ProcessSeparators(IF Contains(Head(seps), t)
                           THEN SetUpdate(skills, StrippedPieces(t, Head(seps)))
                           ELSE skills,
                           t, Tail(seps))

\* an entry without any separator kept whole as one skill
ProcessEntryKeepsWhole(skills, entry) ==
    IF \E k \in DOMAIN separators : Contains(separators[k], JoinSpace(entry))
    THEN ProcessSeparators(skills, JoinSpace(entry), separators)
    ELSE SetUpdate(skills, <<JoinSpace(entry)>>)

ProcessEntry(skills, entry) == ProcessSeparators(skills, JoinSpace(entry), separators)

\* lines 370-404: the body of the for-loop for one line; st.blocks is the set skills
ScanLineSkills(keywords, st, rawline) ==
    LET line == Strip(rawline)
        own == AnyKeywordIn(keywords, line)
    IN IF own
       THEN [st EXCEPT !.in_section = TRUE,
                       !.current_entry = IF ~AnyKeywordIs(keywords, line)
                                         THEN Append(@, line) ELSE @]
       ELSE IF ~st.in_section THEN st
       ELSE IF /\ line # ""
               /\ AnyKeywordIn(self_document_types[1].keywords, line)
               /\ ~own
            THEN [st EXCEPT !.in_section = FALSE,
                            !.current_entry = <<>>,
                            !.blocks = IF st.current_entry # <<>>
                                       THEN ProcessEntry(@, st.current_entry) ELSE @]
       ELSE IF line # "" THEN [st EXCEPT !.current_entry = Append(@, line)]
       ELSE IF st.current_entry # <<>>
            THEN [st EXCEPT !.blocks = ProcessEntry(@, st.current_entry),
                            !.current_entry = <<>>]
       ELSE st

Reverse(q) == [k \in 1..Len(q) |-> q[Len(q) + 1 - k]]

\* line 413, list(skills): the elements in the order the process's string
\* hashing gives the set; the order is fixed within a process and differs
\* between processes
ListOfSet(set) == IF hash_order = "insertion" THEN set ELSE Reverse(set)

\* lines 354-364
SKStart ==
    /\ op = "extract_skills" /\ pc = "start"
    /\ lines' = SplitLines(text)
    /\ blocks' = <<>>
    /\ in_section' = FALSE
    /\ current_entry' = <<>>
    /\ idx' = 1
    /\ pc' = "loop"
    /\ UNCHANGED <<op, text, required_skills, lowered, found_skills, missing_skills,
                   scores, result>>
    /\ UNCHANGED ext

\* lines 369-404
SKLoop ==
    /\ op = "extract_skills" /\ pc = "loop"
    /\ idx <= Len(lines)
    /\ LET st == ScanLineSkills(skills_keywords,
                                [in_section |-> in_section,
                                 current_entry |-> current_entry,
                                 blocks |-> blocks],
                                lines[idx])
       IN /\ in_section' = st.in_section
          /\ current_entry' = st.current_entry
          /\ blocks' = st.blocks
    /\ idx' = idx + 1
    /\ UNCHANGED <<op, pc, text, required_skills, lowered, found_skills, missing_skills,
                   scores, lines, result>>
    /\ UNCHANGED ext

\* lines 406-413
SKReturn ==
    /\ op = "extract_skills" /\ pc = "loop"
    /\ idx > Len(lines)
    /\ blocks' = IF current_entry # <<>> THEN ProcessEntry(blocks, current_entry) ELSE blocks
    /\ result' = ListOfSet(blocks')
    /\ pc' = "done"
    /\ UNCHANGED <<op, text, required_skills, lowered, idx, found_skills, missing_skills,
                   scores, lines, in_section, current_entry>>
    /\ UNCHANGED ext

-----------------------------------------------------------------------------
(* extract_summary(text) *)

\* lines 430-432: the number of leading blank lines skipped, at most 10
RECURSIVE StartIndex(_, _)
StartIndex(ls, start_index) ==
    IF start_index < (IF Len(ls) < 10 THEN Len(ls) ELSE 10) /\ Strip(ls[start_index + 1]) = ""
    THEN StartIndex(ls, start_index + 1)
    ELSE start_index

\* lines 435-442: the first five non-blank lines, trimmed
RECURSIVE FirstLines(_, _)
FirstLines(ls, first_lines) ==
    IF ls = <<>> \/ Len(first_lines) >= 5 THEN first_lines
    ELSE FirstLines(Tail(ls),
                    IF Strip(Head(ls)) # "" THEN Append(first_lines, Strip(Head(ls)))
                    ELSE first_lines)

contact_words == <<"email", "phone", "address", "tel", "mobile", "linkedin">>

\* line 448: re.search(r"\b(?:email|phone|address|tel|mobile|linkedin)\b", s)
SearchContactWord(s) == \E k \in DOMAIN contact_words : SearchWholeWord(contact_words[k], s)

\* the look at the first lines without the search for a contact word
ImplicitSummaryIgnoresContact(ls) ==
    LET first_lines == FirstLines(SubSeq(ls, StartIndex(ls, 0) + 1, Len(ls)), <<>>)
    IN IF first_lines # <<>>
          /\ ~\E k \in DOMAIN summary_keywords :
                  Contains(summary_keywords[k], Lower(first_lines[1]))
       THEN LET potential_summary == JoinSpace(first_lines)
            IN IF WordCount(potential_summary) > 10
               THEN <<potential_summary>>
               ELSE <<>>
       ELSE <<>>

\* the look at the first lines that keeps the first line only
ImplicitSummaryFirstLineOnly(ls) ==
    LET first_lines == FirstLines(SubSeq(ls, StartIndex(ls, 0) + 1, Len(ls)), <<>>)
    IN IF first_lines # <<>>
          /\ ~\E k \in DOMAIN summary_keywords :
                  Contains(summary_keywords[k], Lower(first_lines[1]))
       THEN LET potential_summary == JoinSpace(first_lines)
            IN IF WordCount(potential_summary) > 10
                  /\ ~SearchContactWord(Lower(potential_summary))
               THEN <<first_lines[1]>>
               ELSE <<>>
       ELSE <<>>

\* lines 445-449: the summary list after the look at the first lines;
\* first_lines[0] of an empty list raises IndexError
ImplicitSummary(ls) ==
    LET first_lines == FirstLines(SubSeq(ls, StartIndex(ls, 0) + 1, Len(ls)), <<>>)
    IN IF first_lines # <<>>
          /\ ~\E k \in DOMAIN summary_keywords :
                  Contains(summary_keywords[k], Lower(first_lines[1]))
       THEN LET potential_summary == JoinSpace(first_lines)
            IN IF WordCount(potential_summary) > 10
                  /\ ~SearchContactWord(Lower(potential_summary))
               THEN <<potential_summary>>
               ELSE <<>>
       ELSE <<>>

\* lines 419-449
SMStart ==
    /\ op = "extract_summary" /\ pc = "start"
    /\ lines' = SplitLines(text)
    /\ blocks' = ImplicitSummary(lines')
    /\ in_section' = FALSE
    /\ current_entry' = <<>>
    /\ idx' = 1
    /\ pc' = "loop"
    /\ UNCHANGED <<op, text, required_skills, lowered, found_skills, missing_skills,
                   scores, result>>
    /\ UNCHANGED ext

\* lines 452-476
SMLoop == SectionLoop("extract_summary", summary_keywords)

\* lines 478-481
SMReturn ==
    /\ op = "extract_summary" /\ pc = "loop"
    /\ idx > Len(lines)
    /\ blocks' = FinalBlocks(current_entry, blocks)
    /\ result' = IF blocks' # <<>> THEN JoinSpace(blocks') ELSE ""
    /\ pc' = "done"
    /\ UNCHANGED <<op, text, required_skills, lowered, idx, found_skills, missing_skills,
                   scores, lines, in_section, current_entry>>
    /\ UNCHANGED ext

-----------------------------------------------------------------------------
(* The five section extractors on documents of up to MaxLines lines *)

Extractors == {"extract_education", "extract_experience", "extract_projects",
               "extract_skills", "extract_summary"}

BlockExtractors == {"extract_education", "extract_experience", "extract_projects"}

OwnKeywords(name) ==
    CASE name = "extract_education" -> education_keywords
      [] name = "extract_experience" -> experience_keywords
      [] name = "extract_projects" -> project_keywords
      [] name = "extract_skills" -> skills_keywords
      [] name = "extract_summary" -> summary_keywords

\* for each extractor: a line that is exactly a keyword, a line that holds a
\* keyword and more, a line with a generic resume keyword ("work") and no
\* keyword of a section ("Teamwork"), a content line and a blank line
HeaderLine(name) ==
    CASE name = "extract_education" -> "EDUCATION"
      [] name = "extract_experience" -> "Experience"
      [] name = "extract_projects" -> "Projects"
      [] name = "extract_skills" -> "Skills"
      [] name = "extract_summary" -> "Summary"

HeaderContentLine(name) ==
    CASE name = "extract_education" -> "MIT University"
      [] name = "extract_experience" -> "Work Experience 2y"
      [] name = "extract_projects" -> "Key Projects: x"
      [] name = "extract_skills" -> "Skills: Go, C"
      [] name = "extract_summary" -> "Profile: dev"

\* a content line; for extract_summary a line of more than ten words, which
\* the look at the first lines takes as a summary without a header
ContentLine(name) ==
    IF name = "extract_summary"
    THEN "I am a dev of web db ui ai ml ops"
    ELSE " Go, SQL "

SCLines(name) ==
    {HeaderLine(name), HeaderContentLine(name), "Teamwork", ContentLine(name), ""}

\* "\n".join(ls)
RECURSIVE JoinLines(_)
JoinLines(ls) ==
    IF ls = <<>> THEN ""
    ELSE IF Len(ls) = 1 THEN Head(ls)
    ELSE Head(ls) \o "\n" \o JoinLines(Tail(ls))

SCTexts(name) == { JoinLines(ls) : ls \in SeqsUpTo(SCLines(name), MaxLines) }

InitSC ==
    /\ op \in Extractors
    /\ pc = "start"
    /\ text \in SCTexts(op)
    /\ required_skills = <<>>
    /\ lowered = ""
    /\ idx = 0
    /\ found_skills = <<>>
    /\ missing_skills = <<>>
    /\ scores = <<>>
    /\ lines = <<>>
    /\ in_section = FALSE
    /\ current_entry = <<>>
    /\ blocks = <<>>
    /\ result = "none"
    /\ self_document_types = document_types
    /\ calls = 1
    /\ hash_order \in (IF op = "extract_skills" THEN {"insertion", "reversed"}
                                                ELSE {"insertion"})
    /\ skills_type = "list"
    /\ format_score = 0
    /\ deductions = <<>>
    /\ frames = <<>>
    /\ thread = 1
    /\ history = <<>>
    /\ world = NoWorld
    /\ events = <<>>

NextSC ==
    \/ EDStart \/ EDLoop \/ EDReturn
    \/ EXStart \/ EXLoop \/ EXReturn
    \/ PRStart \/ PRLoop \/ PRReturn
    \/ SKStart \/ SKLoop \/ SKReturn
    \/ SMStart \/ SMLoop \/ SMReturn

SpecSC == InitSC /\ [][NextSC]_vars

ExtractorDone == op \in Extractors /\ pc = "done"

-----------------------------------------------------------------------------
(* What a section scan returns, read off the lines of the document *)

StrippedLine(i) == Strip(lines[i])

\* line i holds one of the section's own keywords
OwnAt(i) == AnyKeywordIn(OwnKeywords(op), StrippedLine(i))

\* line i is non-blank, holds a generic resume keyword and no own keyword
CloserAt(i) ==
    /\ StrippedLine(i) # ""
    /\ AnyKeywordIn(document_types[1].keywords, StrippedLine(i))
    /\ ~OwnAt(i)

\* the scan is inside the section when it reads line i
InsideAt(i) ==
    \E j \in 1..(i - 1) : OwnAt(j) /\ \A k \in (j + 1)..(i - 1) : ~CloserAt(k)

\* line i goes to the accumulator
AppendedAt(i) ==
    \/ OwnAt(i) /\ ~AnyKeywordIs(OwnKeywords(op), StrippedLine(i))
    \/ ~OwnAt(i) /\ InsideAt(i) /\ ~CloserAt(i) /\ StrippedLine(i) # ""

\* line i ends the run before it
BreakAt(i) == ~OwnAt(i) /\ InsideAt(i) /\ (CloserAt(i) \/ StrippedLine(i) = "")

AppendedLines == { i \in 1..Len(lines) : AppendedAt(i) }

\* line i is the first line of a run
RunStartAt(i) ==
    /\ i \in AppendedLines
    /\ \/ \A j \in AppendedLines : j >= i
       \/ LET prev == CHOOSE j \in AppendedLines :
                          j < i /\ \A k \in AppendedLines : k < i => k <= j
          IN \E b \in (prev + 1)..(i - 1) : BreakAt(b)

\* the members of a set of numbers in increasing order
RECURSIVE Sorted(_)
Sorted(S) ==
    IF S = {} THEN <<>>
    ELSE LET m == CHOOSE x \in S : \A y \in S : x <= y
         IN <<m>> \o Sorted(S \ {m})

\* the run that starts at line i: its lines, trimmed, joined with spaces
RunFrom(i) ==
    LET members == { j \in AppendedLines :
                       j >= i /\ \A k \in (i + 1)..j : ~RunStartAt(k) }
        order == Sorted(members)
    IN JoinSpace([k \in DOMAIN order |-> StrippedLine(order[k])])

\* the runs of the section in document order
DocumentOrderBlocks ==
    LET starts == Sorted({ i \in 1..Len(lines) : RunStartAt(i) })
    IN [g \in DOMAIN starts |-> RunFrom(starts[g])]

\* the tokens of the runs: each run split at each separator it holds
TokensOf(bs) ==
    UNION { Range(StrippedPieces(bs[g], separators[c])) :
              <<g, c>> \in { p \in (DOMAIN bs) \X (DOMAIN separators) :
                               Contains(separators[p[2]], bs[p[1]]) } }

NoDuplicates(q) == \A i, j \in DOMAIN q : q[i] = q[j] => i = j

\* C11 as stated: each of the five section extractors returns the sequence of
\* the section's runs in document order, one joined string per run, nothing
\* re-ordered and nothing de-duplicated.
C11_AllFiveReturnBlocks ==
    ExtractorDone => (op # "extract_summary" /\ result = DocumentOrderBlocks)

\* C11: extract_education, extract_experience and extract_projects return the
\* sequence of the section's runs in document order, one joined string per
\* run, nothing re-ordered and nothing de-duplicated; extract_skills returns
\* the tokens of the runs split at the separators, each once, in no fixed
\* order; extract_summary returns one string, the summary found in the first
\* lines followed by the runs, joined with spaces.
C11_BlocksTokensOrString ==
    ExtractorDone =>
        CASE op \in BlockExtractors -> result = DocumentOrderBlocks
          [] op = "extract_skills" ->
                NoDuplicates(result) /\ Range(result) = TokensOf(DocumentOrderBlocks)
          [] op = "extract_summary" ->
                result = JoinSpace(ImplicitSummary(lines) \o DocumentOrderBlocks)

\* a skills section of two equal runs, returned as their tokens, each once
C11_Witness ==
    /\ ExtractorDone
    /\ op = "extract_skills"
    /\ Len(DocumentOrderBlocks) = 2
    /\ DocumentOrderBlocks[1] = DocumentOrderBlocks[2]
    /\ Len(result) = 2

-----------------------------------------------------------------------------
(* The steps of the section scan *)

\* the scan is about to read line idx
ReadingLine == op \in Extractors /\ pc = "loop" /\ idx <= Len(lines)

\* the line read is non-blank, holds a generic resume keyword and none of the
\* section's own, and the scan is inside the section
ClosingLineRead ==
    /\ ReadingLine /\ op \in BlockExtractors
    /\ in_section
    /\ CloserAt(idx)

\* the scan is outside the section and the line read holds no own keyword
OutsideLineRead ==
    /\ ReadingLine /\ op \in BlockExtractors
    /\ ~in_section
    /\ ~OwnAt(idx)

\* C18: in extract_education, extract_experience and extract_projects, reading
\* inside the section a line with a generic resume keyword and no own keyword
\* closes the section: the flag goes down, the accumulator is flushed as one
\* block and emptied, the closing line goes to no block; and while the flag is
\* down a line without an own keyword changes neither the blocks nor the
\* accumulator nor the flag.
C18_ClosingLineCloses ==
    [][/\ ClosingLineRead =>
            /\ in_section' = FALSE
            /\ current_entry' = <<>>
            /\ blocks' = IF current_entry # <<>>
                         THEN Append(blocks, JoinSpace(current_entry))
                         ELSE blocks
       /\ OutsideLineRead => UNCHANGED <<in_section, current_entry, blocks>>]_vars

\* a run, a closing line and a content line after it: one block, the run
C18_Witness ==
    /\ ExtractorDone /\ op \in BlockExtractors
    /\ \E i \in 2..(Len(lines) - 1) :
          /\ AppendedAt(i - 1)
          /\ InsideAt(i) /\ CloserAt(i)
          /\ ~OwnAt(i + 1) /\ StrippedLine(i + 1) # "" /\ ~CloserAt(i + 1)
          /\ result = <<StrippedLine(i - 1)>>

\* the line read is blank and the scan is inside the section
BlankLineRead ==
    /\ ReadingLine /\ op \in BlockExtractors
    /\ in_section
    /\ StrippedLine(idx) = ""

\* C19: a blank line read inside the section ends the current block and leaves
\* the section open: the flag stays up, the lines accumulated so far become
\* one block (if there are any) and the accumulator is emptied, so that the
\* lines after the blank line start a new block.
C19_BlankLineEndsBlock ==
    [][BlankLineRead =>
          /\ in_section' = TRUE
          /\ current_entry' = <<>>
          /\ blocks' = IF current_entry # <<>>
                       THEN Append(blocks, JoinSpace(current_entry))
                       ELSE blocks]_vars

\* a content line on either side of a blank line inside the section: two blocks
C19_Witness ==
    /\ ExtractorDone /\ op \in BlockExtractors
    /\ \E i \in 2..(Len(lines) - 1) :
          /\ AppendedAt(i - 1)
          /\ InsideAt(i) /\ StrippedLine(i) = ""
          /\ AppendedAt(i + 1) /\ ~OwnAt(i + 1)
          /\ result = <<StrippedLine(i - 1), StrippedLine(i + 1)>>

\* the trimmed line read equals one of the section's keywords, case ignored
ExactKeywordAt(i) ==
    \E k \in DOMAIN OwnKeywords(op) : Lower(OwnKeywords(op)[k]) = Lower(StrippedLine(i))

\* C20: in each of the five scans, a line that holds one of the section's
\* keywords (as a substring, case ignored) puts the flag up whatever it was;
\* the trimmed line is appended to the accumulator exactly when it is not
\* equal to a keyword (case ignored), and the blocks are left as they are.
C20_KeywordLineOpens ==
    [][(ReadingLine /\ OwnAt(idx)) =>
          /\ in_section' = TRUE
          /\ current_entry' = IF ExactKeywordAt(idx)
                              THEN current_entry
                              ELSE Append(current_entry, StrippedLine(idx))
          /\ blocks' = blocks]_vars

\* a bare header line and a header line with content: only the second is text
C20_Witness ==
    /\ ExtractorDone /\ op \in BlockExtractors
    /\ \E i, j \in 1..Len(lines) :
          /\ OwnAt(i) /\ ExactKeywordAt(i)
          /\ OwnAt(j) /\ ~ExactKeywordAt(j)
          /\ result = <<StrippedLine(j)>>

-----------------------------------------------------------------------------
(* check_formatting(text) *)

FullScore == 100
MinLength == 300
TooShortPenalty == 30
HeaderPenalty == 20
BulletPenalty == 20
SpacingPenalty == 15
ContactPenalty == 15

TooShortReason == "Resume is too short!"
HeaderReason == "No clear section headers found!"
BulletReason == "No bullet points found for listing details!"
SpacingReason == "Inconsistent spacing between sections!"
ContactReason == "Missing or improperly formatted contact information!"

IsUpperChar(c) == c \in UpperChars
LowerChars == CharsOf(LowerLetters)
IsLowerChar(c) == c \in LowerChars
DigitChars == CharsOf(Digits)
IsDigit(c) == c \in DigitChars

\* line 112: re.match(r"^[A-Z][a-z]+(\s[A-Z][a-z]+)*$", s) on a stripped line:
\* words of one upper-case letter and one or more lower-case letters, one
\* whitespace character between two words
HeaderPattern(s) ==
    /\ s # ""
    /\ \A i \in 1..Len(s) :
          \/ /\ IsUpperChar(Ch(s, i))
             /\ i = 1 \/ IsSpace(Ch(s, i - 1))
             /\ i < Len(s) /\ IsLowerChar(Ch(s, i + 1))
          \/ /\ IsLowerChar(Ch(s, i))
             /\ i > 1
             /\ IsUpperChar(Ch(s, i - 1)) \/ IsLowerChar(Ch(s, i - 1))
          \/ /\ IsSpace(Ch(s, i))
             /\ i > 1 /\ IsLowerChar(Ch(s, i - 1))
             /\ i < Len(s) /\ IsUpperChar(Ch(s, i + 1))

\* str.isupper(): a cased character, and no lower-case one
IsUpper(s) ==
    /\ \E i \in 1..Len(s) : IsUpperChar(Ch(s, i))
    /\ \A i \in 1..Len(s) : ~IsLowerChar(Ch(s, i))

\* lines 111-114: no line is header-like
NoHeaders(ls) ==
    ~\E k \in DOMAIN ls : HeaderPattern(Strip(ls[k])) \/ IsUpper(ls[k])

\* line 119: the bullet characters that the texts of the model can hold (the
\* others of the tuple are outside the character set of the model)
bullet_chars == {"-", "*"}

\* line 120: no non-blank line starts, after trimming, with a bullet character
NoBullets(ls) ==
    ~\E k \in DOMAIN ls : Strip(ls[k]) # "" /\ Ch(Strip(ls[k]), 1) \in bullet_chars

\* lines 125-126: two consecutive lines are blank after trimming
DoubleBlank(ls) ==
    \E k \in 1..(Len(ls) - 1) : Strip(ls[k]) = "" /\ Strip(ls[k + 1]) = ""

\* the regex class [\w\.-]
IsAddressChar(c) == IsWordChar(c) \/ c \in {".", "-"}

\* line 132: re.search(r"\b[\w\.-]+@[\w\.-]+\.\w+\b", s): an "@" at a, the
\* local part from p, the domain up to q, a dot, the last label up to r
SearchEmail(s) ==
    \E a \in 2..(Len(s) - 3) :
        /\ Ch(s, a) = "@"
        /\ IsAddressChar(Ch(s, a - 1))
        /\ IsAddressChar(Ch(s, a + 1))
        /\ \E p \in 1..(a - 1) :
              /\ \A j \in p..(a - 1) : IsAddressChar(Ch(s, a - 1 - (j - p)))
              /\ WordBoundary(s, p - 1)
        /\ \E q \in (a + 1)..(Len(s) - 2) :
              /\ \A j \in (a + 1)..q : IsAddressChar(Ch(s, j))
              /\ Ch(s, q + 1) = "."
              /\ \E r \in (q + 2)..Len(s) :
                    /\ \A j \in (q + 2)..r : IsWordChar(Ch(s, j))
                    /\ WordBoundary(s, r)

IsPhoneSeparator(c) == c \in {"-", "."} \/ IsSpace(c)

ThreeDigitsAt(s, i) ==
    /\ i >= 1 /\ i + 2 <= Len(s)
    /\ IsDigit(Ch(s, i)) /\ IsDigit(Ch(s, i + 1)) /\ IsDigit(Ch(s, i + 2))

\* line 133: re.search of the phone pattern; its two leading groups are
\* optional, so it matches exactly when \d{3}[-.\s]?\d{3} does
SearchPhone(s) ==
    \E i \in 1..(Len(s) - 5) :
        /\ ThreeDigitsAt(s, i)
        /\ \/ ThreeDigitsAt(s, i + 3)
           \/ IsPhoneSeparator(Ch(s, i + 3)) /\ ThreeDigitsAt(s, i + 4)

\* line 134: re.search(r"linkedin\.com/\w+", s)
SearchLinkedIn(s) ==
    \E i \in 1..(Len(s) - 13) :
        /\ SubSeq(s, i, i + 12) = "linkedin.com/"
        /\ IsWordChar(Ch(s, i + 13))

\* only the LinkedIn pattern of lines 131-135
ContactFoundLinkedInOnly(s) == SearchLinkedIn(s)

\* line 136: any(re.search(pattern, text) for pattern in contact_patterns)
ContactFound(s) == SearchEmail(s) \/ SearchPhone(s) \/ SearchLinkedIn(s)

\* a rule that takes the points and gives no reason
DeductSilently(score, reasons, triggered, penalty, reason) ==
    IF triggered THEN <<score - penalty, reasons>> ELSE <<score, reasons>>

\* the rules as an if/elif chain: a rule is looked at only while no earlier
\* rule has deducted
DeductFirstOnly(score, reasons, triggered, penalty, reason) ==
    IF triggered /\ reasons = <<>>
    THEN <<score - penalty, Append(reasons, reason)>>
    ELSE <<score, reasons>>

\* score -= penalty; deductions.append(reason), when the rule is triggered
Deduct(score, reasons, triggered, penalty, reason) ==
    IF triggered THEN <<score - penalty, Append(reasons, reason)>> ELSE <<score, reasons>>

\* lines 101-103
CFStart ==
    /\ op = "check_formatting" /\ pc = "start"
    /\ lines' = SplitLines(text)
    /\ format_score' = FullScore
    /\ deductions' = <<>>
    /\ pc' = "length"
    /\ UNCHANGED <<op, text, required_skills, lowered, idx, found_skills, missing_skills,
                   scores, in_section, current_entry, blocks, result>>
    /\ UNCHANGED caller

\* one rule of lines 105-138
CFRule(here, triggered, penalty, reason, next) ==
    /\ op = "check_formatting" /\ pc = here
    /\ LET after == Deduct(format_score, deductions, triggered, penalty, reason)
       IN /\ format_score' = after[1]
          /\ deductions' = after[2]
    /\ pc' = next
    /\ UNCHANGED <<op, text, required_skills, lowered, idx, found_skills, missing_skills,
                   scores, lines, in_section, current_entry, blocks, result>>
    /\ UNCHANGED caller

\* lines 106-108
CFLength == CFRule("length", Len(text) < MinLength, TooShortPenalty, TooShortReason, "headers")

\* lines 111-116
CFHeaders == CFRule("headers", NoHeaders(lines), HeaderPenalty, HeaderReason, "bullets")

\* lines 119-122
CFBullets == CFRule("bullets", NoBullets(lines), BulletPenalty, BulletReason, "spacing")

\* lines 125-128
CFSpacing == CFRule("spacing", DoubleBlank(lines), SpacingPenalty, SpacingReason, "contact")

\* lines 131-138
CFContact == CFRule("contact", ~ContactFound(text), ContactPenalty, ContactReason, "return")

\* line 140
CFReturn ==
    /\ op = "check_formatting" /\ pc = "return"
    /\ result' = <<IF format_score > 0 THEN format_score ELSE 0, deductions>>
    /\ pc' = "done"
    /\ UNCHANGED <<op, text, required_skills, lowered, idx, found_skills, missing_skills,
                   scores, lines, in_section, current_entry, blocks>>
    /\ UNCHANGED ext

RECURSIVE Repeat(_, _)
Repeat(s, n) == IF n = 0 THEN "" ELSE s \o Repeat(s, n - 1)

\* plain prose of 299 and of 300 characters
Padding299 == Repeat("lorem ipsum ", 24) \o "lorem ipsum"
Padding300 == Repeat("lorem ipsum ", 25)

\* two section lines, a bullet line, a bullet line with an e-mail address, a
\* phone number, a blank line and a header-like line
CFPieces ==
    {"Education: MIT 2020\nSkills: Python, Go", "* built x", "- a@b.co", "555 0100", "",
     "Work History"}

CFPaddings == {<<>>, <<Padding299>>, <<Padding300>>}

CFTexts ==
    { JoinLines(ps \o pad) : ps \in SeqsUpTo(CFPieces, MaxCFPieces), pad \in CFPaddings }

InitCF ==
    /\ op = "check_formatting"
    /\ pc = "start"
    /\ text \in CFTexts
    /\ required_skills = <<>>
    /\ lowered = ""
    /\ idx = 0
    /\ found_skills = <<>>
    /\ missing_skills = <<>>
    /\ scores = <<>>
    /\ lines = <<>>
    /\ in_section = FALSE
    /\ current_entry = <<>>
    /\ blocks = <<>>
    /\ result = <<>>
    /\ InitExt

NextCF == CFStart \/ CFLength \/ CFHeaders \/ CFBullets \/ CFSpacing \/ CFContact \/ CFReturn

SpecCF == InitCF /\ [][NextCF]_vars

CFDone == op = "check_formatting" /\ pc = "done"

\* the rules in the order of the code: whether triggered, the points, the reason
FormattingRules ==
    << <<Len(text) < MinLength, TooShortPenalty, TooShortReason>>,
       <<NoHeaders(SplitLines(text)), HeaderPenalty, HeaderReason>>,
       <<NoBullets(SplitLines(text)), BulletPenalty, BulletReason>>,
       <<DoubleBlank(SplitLines(text)), SpacingPenalty, SpacingReason>>,
       <<~ContactFound(text), ContactPenalty, ContactReason>> >>

TriggeredRules == SelectSeq(FormattingRules, LAMBDA rule : rule[1])

RECURSIVE SumPenalties(_)
SumPenalties(rules) == IF rules = <<>> THEN 0 ELSE Head(rules)[2] + SumPenalties(Tail(rules))

\* C12: check_formatting returns the score max(0, 100 - the sum of the points
\* of the triggered rules), an integer from 0 to 100, and the reasons of the
\* triggered rules, one each, in the order too-short, no-headers, no-bullets,
\* inconsistent-spacing, missing-contact.
C12_ScoreAndReasons ==
    CFDone =>
        /\ result[1] = (IF FullScore - SumPenalties(TriggeredRules) > 0
                        THEN FullScore - SumPenalties(TriggeredRules) ELSE 0)
        /\ result[1] \in 0..FullScore
        /\ result[2] = [k \in DOMAIN TriggeredRules |-> TriggeredRules[k][3]]

\* a text on which three of the rules are triggered, the first, third and last
C12_Witness ==
    /\ CFDone
    /\ result = <<FullScore - TooShortPenalty - BulletPenalty - ContactPenalty,
                  <<TooShortReason, BulletReason, ContactReason>> >>

IsLineOf(s) == \E k \in DOMAIN lines : lines[k] = s

\* the text of C13: the two section lines, 300 characters or more, a line
\* that starts with a bullet character, an e-mail address
C13_Precondition ==
    /\ IsLineOf("Education: MIT 2020")
    /\ IsLineOf("Skills: Python, Go")
    /\ Len(text) >= MinLength
    /\ \E k \in DOMAIN lines : lines[k] # "" /\ Ch(lines[k], 1) \in bullet_chars
    /\ Contains("a@b.co", text)

NoneOfThreeReasons ==
    \A k \in DOMAIN result[2] :
        result[2][k] \notin {TooShortReason, BulletReason, ContactReason}

\* C13 as stated: every such text scores at least 70, with neither the
\* too-short, the missing-contact nor the no-bullet deduction.
C13_AtLeastSeventy ==
    (CFDone /\ C13_Precondition) => (result[1] >= 70 /\ NoneOfThreeReasons)

\* C13: every such text gets neither the too-short, the missing-contact nor
\* the no-bullet deduction and scores at least 65; it scores below 70 only
\* when it has both no header-like line and two consecutive blank lines.
C13_AtLeastSixtyFive ==
    (CFDone /\ C13_Precondition) =>
        /\ NoneOfThreeReasons
        /\ result[1] >= FullScore - HeaderPenalty - SpacingPenalty
        /\ result[1] < 70 => result[2] = <<HeaderReason, SpacingReason>>

\* such a text with no header-like line and no two blank lines: 80 points
C13_Witness ==
    /\ CFDone /\ C13_Precondition
    /\ result = <<FullScore - HeaderPenalty, <<HeaderReason>> >>

-----------------------------------------------------------------------------
(* calculate_keyword_match with a required_skills argument of any shape *)

\* the for-loop of line 61 over a string takes its characters one by one
CharactersOf(str) == [i \in 1..Len(str) |-> Ch(str, i)]

KMArgTexts == {"", "I know Java", "java script", "C++ and a"}

\* a single string in place of the list
KMStringArguments == {"", "Java", "a", "C++"}

\* lists of at most MaxSkills elements with an element that is not a string
KMMixedArguments ==
    { q \in SeqsUpTo(KMSkills \cup {NotAString}, MaxSkills) :
        \E k \in DOMAIN q : q[k] = NotAString }

InitKMArg ==
    /\ op = "calculate_keyword_match"
    /\ pc = "start"
    /\ text \in KMArgTexts
    /\ skills_type \in {"list", "str", "mixed"}
    /\ required_skills \in
          CASE skills_type = "list" -> SeqsUpTo(KMSkills, MaxSkills)
            [] skills_type = "str" -> { CharactersOf(str) : str \in KMStringArguments }
            [] skills_type = "mixed" -> KMMixedArguments
    /\ lowered = ""
    /\ idx = 0
    /\ found_skills = <<>>
    /\ missing_skills = <<>>
    /\ scores = <<>>
    /\ lines = <<>>
    /\ in_section = FALSE
    /\ current_entry = <<>>
    /\ blocks = <<>>
    /\ result = [error |-> "none"]
    /\ self_document_types = document_types
    /\ calls = 1
    /\ hash_order = "insertion"
    /\ format_score = 0
    /\ deductions = <<>>
    /\ frames = <<>>
    /\ thread = 1
    /\ history = <<>>
    /\ world = NoWorld
    /\ events = <<>>

NextKMArg == KMStart \/ KMLoop \/ KMRaise \/ KMReturn

SpecKMArg == InitKMArg /\ [][NextKMArg]_vars

Raised(kind) == "error" \in DOMAIN result /\ result.error = kind

\* C17: a call of calculate_keyword_match whose required_skills is not a list
\* of strings (a single string, a list with an element that is not a string)
\* ends with an InvalidArgument error and returns no score, found or missing
\* skills.
C17_InvalidArgument ==
    (KMDone /\ skills_type # "list") => Raised("InvalidArgument")

-----------------------------------------------------------------------------
(* Every component on every text of the models, the empty text among them *)

InitTotal == InitDT \/ InitKM \/ InitSC \/ InitCF

NextTotal == NextDT \/ NextKM \/ NextSC \/ NextCF

SpecTotal == InitTotal /\ [][NextTotal]_vars

\* a quotient was computed: its divisor was not zero
Defined(q) == q.den # 0

IsSequenceOfStrings(q) == DOMAIN q = 1..Len(q) /\ \A k \in DOMAIN q : Len(q[k]) >= 0

\* what each component returns: a label, a score with the two lists, a score
\* from 0 to 100 with the reasons, a list of strings, a string
WellFormedResult ==
    CASE op = "detect_document_type" ->
            /\ result \in DocumentTypeLabels \cup {UnknownLabel}
            /\ \A k \in DOMAIN scores : Defined(scores[k].score)
      [] op = "calculate_keyword_match" ->
            /\ Defined(result.score)
            /\ result.score.num >= 0
            /\ result.score.num <= 100 * result.score.den
            /\ IsSequenceOfStrings(result.found_skills)
            /\ IsSequenceOfStrings(result.missing_skills)
      [] op = "check_formatting" ->
            /\ result[1] \in 0..FullScore
            /\ IsSequenceOfStrings(result[2])
      [] op = "extract_summary" -> Len(result) >= 0 /\ result \o "" = result
      [] op \in Extractors \ {"extract_summary"} -> IsSequenceOfStrings(result)

\* C16: on every text, the empty one and those without a keyword included,
\* detect_document_type, calculate_keyword_match with a list of strings,
\* check_formatting and the five extractors divide by no zero on their way and
\* return a well-formed result.
C16_TotalOnStrings ==
    /\ \A k \in DOMAIN scores : Defined(scores[k].score)
    /\ pc = "done" => WellFormedResult

\* the empty text: the unknown label
C16_Witness ==
    /\ pc = "done"
    /\ text = ""
    /\ op = "detect_document_type"
    /\ result = UnknownLabel
    /\ \A k \in DOMAIN scores : scores[k].score = Ratio(0, 10 * Len(document_types[k].keywords))

-----------------------------------------------------------------------------
(* What each method returns for its arguments on a new instance *)

RECURSIVE ScanAll(_, _, _)
ScanAll(keywords, st, ls) ==
    IF ls = <<>> THEN st
    ELSE ScanAll(keywords, ScanLine(keywords, st, Head(ls)), Tail(ls))

RECURSIVE ScanAllSkills(_, _, _)
ScanAllSkills(keywords, st, ls) ==
    IF ls = <<>> THEN st
    ELSE ScanAllSkills(keywords, ScanLineSkills(keywords, st, Head(ls)), Tail(ls))

EntryState(bs) == [in_section |-> FALSE, current_entry |-> <<>>, blocks |-> bs]

ExtractBlocksOf(keywords, t) ==
    LET st == ScanAll(keywords, EntryState(<<>>), SplitLines(t))
    IN FinalBlocks(st.current_entry, st.blocks)

ExtractSkillsOf(t) ==
    LET st == ScanAllSkills(skills_keywords, EntryState(<<>>), SplitLines(t))
    IN ListOfSet(IF st.current_entry # <<>>
                 THEN ProcessEntry(st.blocks, st.current_entry) ELSE st.blocks)

ExtractSummaryOf(t) ==
    LET st == ScanAll(summary_keywords, EntryState(ImplicitSummary(SplitLines(t))),
                      SplitLines(t))
        summary == FinalBlocks(st.current_entry, st.blocks)
    IN IF summary # <<>> THEN JoinSpace(summary) ELSE ""

DetectDocumentTypeOf(t) ==
    LET low == Lower(t)
        entry(k) ==
            LET matches == MatchCount(document_types[k].keywords, low)
            IN [doc_type |-> document_types[k].name,
                matches |-> matches,
                score |-> CompositeScore(matches, Len(document_types[k].keywords),
                                         WordCount(low))]
    IN BestOrUnknown(PyMax([k \in DOMAIN document_types |-> entry(k)]))

RECURSIVE ClassifyAll(_, _, _, _)
ClassifyAll(skills, resume_text, found, missing) ==
    IF skills = <<>> THEN [found |-> found, missing |-> missing]
    ELSE LET r == ClassifySkill(Head(skills), resume_text, found, missing)
         IN ClassifyAll(Tail(skills), resume_text, r.found, r.missing)

KeywordMatchOf(t, skills) ==
    LET r == ClassifyAll(skills, MatchText(t), <<>>, <<>>)
    IN [score |-> MatchScore(r.found, r.missing, skills),
        found_skills |-> r.found,
        missing_skills |-> r.missing]

RECURSIVE DeductAll(_, _, _)
DeductAll(rules, score, reasons) ==
    IF rules = <<>> THEN <<IF score > 0 THEN score ELSE 0, reasons>>
    ELSE LET after == Deduct(score, reasons, Head(rules)[1], Head(rules)[2], Head(rules)[3])
         IN DeductAll(Tail(rules), after[1], after[2])

CheckFormattingOf(t) ==
    DeductAll(<< <<Len(t) < MinLength, TooShortPenalty, TooShortReason>>,
                 <<NoHeaders(SplitLines(t)), HeaderPenalty, HeaderReason>>,
                 <<NoBullets(SplitLines(t)), BulletPenalty, BulletReason>>,
                 <<DoubleBlank(SplitLines(t)), SpacingPenalty, SpacingReason>>,
                 <<~ContactFound(t), ContactPenalty, ContactReason>> >>,
              FullScore, <<>>)

FreshResultOf(name, t, skills) ==
    CASE name = "detect_document_type" -> DetectDocumentTypeOf(t)
      [] name = "calculate_keyword_match" -> KeywordMatchOf(t, skills)
      [] name = "check_formatting" -> CheckFormattingOf(t)
      [] name = "extract_skills" -> ExtractSkillsOf(t)
      [] name = "extract_summary" -> ExtractSummaryOf(t)
      [] name \in BlockExtractors -> ExtractBlocksOf(OwnKeywords(name), t)

-----------------------------------------------------------------------------
(* A sequence of calls on one instance *)

\* two texts for each extractor: one that leaves the scan inside the section
\* with lines accumulated, one without a keyword
OpenSectionText(name) == HeaderContentLine(name) \o "\nDev\n\n Go, SQL "

CallInputs ==
    { [op |-> "detect_document_type", text |-> t, required_skills |-> <<>>] :
        t \in {"", "resume skills work"} }
    \cup
    { [op |-> "calculate_keyword_match", text |-> c[1], required_skills |-> c[2]] :
        c \in { <<"I know Java", <<"Java", "C++">> >>, <<"", <<>> >> } }
    \cup
    { [op |-> "check_formatting", text |-> t, required_skills |-> <<>>] :
        t \in {"", "Work History\n* built x"} }
    \cup
    { [op |-> name, text |-> OpenSectionText(name), required_skills |-> <<>>] :
        name \in Extractors }
    \cup
    { [op |-> name, text |-> "Dev", required_skills |-> <<>>] : name \in Extractors }

InitCalls ==
    /\ \E c \in CallInputs :
          /\ op = c.op
          /\ text = c.text
          /\ required_skills = c.required_skills
    /\ pc = "start"
    /\ lowered = ""
    /\ idx = 0
    /\ found_skills = <<>>
    /\ missing_skills = <<>>
    /\ scores = <<>>
    /\ lines = <<>>
    /\ in_section = FALSE
    /\ current_entry = <<>>
    /\ blocks = <<>>
    /\ result = "none"
    /\ self_document_types = document_types
    /\ calls = 1
    /\ hash_order \in {"insertion", "reversed"}
    /\ skills_type = "list"
    /\ format_score = 0
    /\ deductions = <<>>
    /\ frames = <<>>
    /\ thread = 1
    /\ history = <<>>
    /\ world = NoWorld
    /\ events = <<>>

\* the caller takes the result and calls a method again on the same instance;
\* what the call before left in its locals is still there
NextCall ==
    /\ pc = "done"
    /\ calls < MaxCalls
    /\ calls' = calls + 1
    /\ history' = Append(history, [op |-> op, text |-> text,
                                   required_skills |-> required_skills,
                                   result |-> result])
    /\ \E c \in CallInputs :
          /\ op' = c.op
          /\ text' = c.text
          /\ required_skills' = c.required_skills
    /\ pc' = "start"
    /\ UNCHANGED <<lowered, idx, found_skills, missing_skills, scores, lines, in_section,
                   current_entry, blocks, result, self_document_types, hash_order,
                   skills_type, format_score, deductions, frames, thread, world, events>>

NextCalls == NextDT \/ NextKM \/ NextSC \/ NextCF \/ NextCall

SpecCalls == InitCalls /\ [][NextCalls]_vars

SameCall(c, d) ==
    c.op = d.op /\ c.text = d.text /\ c.required_skills = d.required_skills

ThisCall == [op |-> op, text |-> text, required_skills |-> required_skills,
             result |-> result]

ReturnedCalls == history \o (IF pc = "done" THEN <<ThisCall>> ELSE <<>>)

\* C14: whatever calls were made before on the instance, every call returns
\* what a new instance returns for the same arguments, so two calls with the
\* same arguments return the same; and the keyword tables of document_types
\* are as __init__ made them.
C14_NoRetainedState ==
    /\ \A i \in DOMAIN ReturnedCalls :
          LET c == ReturnedCalls[i]
          IN /\ c.result = FreshResultOf(c.op, c.text, c.required_skills)
             /\ \A j \in DOMAIN ReturnedCalls :
                   SameCall(c, ReturnedCalls[j]) => c.result = ReturnedCalls[j].result
    /\ self_document_types = document_types

\* the same extraction twice, the first having left the scan inside the
\* section with lines accumulated
C14_Witness ==
    /\ pc = "done" /\ calls = 2
    /\ op = "extract_education"
    /\ text = OpenSectionText(op)
    /\ SameCall(history[1], ThisCall)
    /\ in_section /\ current_entry # <<>>
    /\ result = <<"MIT University Dev", "Go, SQL">>

-----------------------------------------------------------------------------
(* Two threads calling methods of one instance *)

Threads == {1, 2}

\* the arguments and locals of the call the running thread is in
CurrentFrame ==
    [op |-> op, pc |-> pc, text |-> text, required_skills |-> required_skills,
     lowered |-> lowered, idx |-> idx, found_skills |-> found_skills,
     missing_skills |-> missing_skills, scores |-> scores, lines |-> lines,
     in_section |-> in_section, current_entry |-> current_entry, blocks |-> blocks,
     result |-> result, format_score |-> format_score, deductions |-> deductions]

\* the frame of a call that has not started
EntryFrame(c) ==
    [op |-> c.op, pc |-> "start", text |-> c.text, required_skills |-> c.required_skills,
     lowered |-> "", idx |-> 0, found_skills |-> <<>>,
     missing_skills |-> <<>>, scores |-> <<>>, lines |-> <<>>,
     in_section |-> FALSE, current_entry |-> <<>>, blocks |-> <<>>,
     result |-> "none", format_score |-> 0, deductions |-> <<>>]

\* a name that lives in the instance: the thread switched to finds what the
\* thread switched from left
LoadShared(saved, running) == running

\* a local name lives in the frame of its call: the thread switched to finds
\* what it left itself
LoadLocal(saved, running) == saved

InitThreads ==
    /\ frames \in [Threads -> { EntryFrame(c) : c \in CallInputs }]
    /\ thread = 1
    /\ op = frames[1].op
    /\ pc = "start"
    /\ text = frames[1].text
    /\ required_skills = frames[1].required_skills
    /\ lowered = ""
    /\ idx = 0
    /\ found_skills = <<>>
    /\ missing_skills = <<>>
    /\ scores = <<>>
    /\ lines = <<>>
    /\ in_section = FALSE
    /\ current_entry = <<>>
    /\ blocks = <<>>
    /\ result = "none"
    /\ self_document_types = document_types
    /\ calls = 1
    /\ hash_order = "insertion"
    /\ skills_type = "list"
    /\ format_score = 0
    /\ deductions = <<>>
    /\ history = <<>>
    /\ world = NoWorld
    /\ events = <<>>

\* the interpreter suspends the running thread between two steps and resumes
\* another one; each thread has its own frame, the instance is common to all
Switch ==
    \E t \in Threads \ {thread} :
        /\ frames' = [frames EXCEPT ![thread] = CurrentFrame]
        /\ thread' = t
        /\ op' = frames[t].op
        /\ pc' = frames[t].pc
        /\ text' = frames[t].text
        /\ required_skills' = frames[t].required_skills
        /\ idx' = frames[t].idx
        /\ result' = frames[t].result
        /\ lowered' = LoadLocal(frames[t].lowered, lowered)
        /\ lines' = LoadLocal(frames[t].lines, lines)
        /\ found_skills' = LoadLocal(frames[t].found_skills, found_skills)
        /\ missing_skills' = LoadLocal(frames[t].missing_skills, missing_skills)
        /\ scores' = LoadLocal(frames[t].scores, scores)
        /\ in_section' = LoadLocal(frames[t].in_section, in_section)
        /\ current_entry' = LoadLocal(frames[t].current_entry, current_entry)
        /\ blocks' = LoadLocal(frames[t].blocks, blocks)
        /\ format_score' = LoadLocal(frames[t].format_score, format_score)
        /\ deductions' = LoadLocal(frames[t].deductions, deductions)
        /\ UNCHANGED <<self_document_types, calls, hash_order, skills_type, history,
                       world, events>>

NextThreads == NextDT \/ NextKM \/ NextSC \/ NextCF \/ Switch

SpecThreads == InitThreads /\ [][NextThreads]_vars

FrameOf(t) == IF t = thread THEN CurrentFrame ELSE frames[t]

\* C15: with two threads in methods of the same instance, switched between
\* any two steps, each call returns what it returns when it runs alone, and
\* the keyword tables of document_types are as __init__ made them.
C15_InterleavedAsAlone ==
    /\ \A t \in Threads :
          FrameOf(t).pc = "done" =>
              FrameOf(t).result =
                  FreshResultOf(FrameOf(t).op, FrameOf(t).text, FrameOf(t).required_skills)
    /\ self_document_types = document_types

\* both threads have returned from extract_education, each with the blocks of
\* its own text
C15_Witness ==
    /\ thread = 1 /\ pc = "done" /\ frames[2].pc = "done"
    /\ op = "extract_education" /\ frames[2].op = "extract_education"
    /\ text = OpenSectionText(op) /\ frames[2].text = "Dev"
    /\ result = <<"MIT University Dev", "Go, SQL">>
    /\ frames[2].result = <<>>

-----------------------------------------------------------------------------
(* Conservation of the accumulated lines in the three block extractors *)

\* the scan of a block extractor has read the lines before idx
ScanningBlocks == op \in BlockExtractors /\ pc \in {"loop", "done"}

\* what the scan with these keywords makes of each line of the text: the
\* trimmed line, and the lines that go to the accumulator (a header with
\* content, or a non-blank line inside the section that does not close it)
LineTable(keywords) ==
    LET n == Len(lines)
        stripped == [i \in 1..n |-> Strip(lines[i])]
        own == [i \in 1..n |-> AnyKeywordIn(keywords, stripped[i])]
        closer == [i \in 1..n |->
                     /\ stripped[i] # ""
                     /\ ~own[i]
                     /\ AnyKeywordIn(document_types[1].keywords, stripped[i])]
        inside == [i \in 1..n |->
                     \E j \in 1..(i - 1) : own[j] /\ \A k \in (j + 1)..(i - 1) : ~closer[k]]
    IN [stripped |-> stripped,
        appended |-> { i \in 1..n :
                         \/ own[i] /\ ~AnyKeywordIs(keywords, stripped[i])
                         \/ ~own[i] /\ inside[i] /\ ~closer[i] /\ stripped[i] # "" }]

\* the trimmed lines appended so far, in document order
AppendedSoFar ==
    LET table == LineTable(OwnKeywords(op))
        order == Sorted({ i \in table.appended : i < idx })
    IN [k \in DOMAIN order |-> table.stripped[order[k]]]

\* the blocks made so far, then the accumulator if it holds lines and has not
\* been flushed by the return
HeldText ==
    IF pc = "loop" /\ current_entry # <<>>
    THEN Append(blocks, JoinSpace(current_entry))
    ELSE blocks

\* C21: in extract_education, extract_experience and extract_projects the
\* lines appended so far, in document order, are at every step of the scan the
\* text of the blocks made so far followed by the accumulator: none is lost,
\* none is there twice, none is out of order; and what the accumulator holds
\* at the end of the text becomes the last block returned.
C21_LinesConserved ==
    ScanningBlocks =>
        /\ JoinSpace(HeldText) = JoinSpace(AppendedSoFar)
        /\ (pc = "done" /\ current_entry # <<>>) =>
              /\ result # <<>>
              /\ result[Len(result)] = JoinSpace(current_entry)
        /\ pc = "done" => result = blocks

\* a block made at a blank line, then two lines still in the accumulator at
\* the end of the text: two blocks, the second of two lines
C21_Witness ==
    /\ ExtractorDone /\ op \in BlockExtractors
    /\ Len(result) = 2
    /\ Len(current_entry) = 2
    /\ result[2] = JoinSpace(current_entry)
    /\ Len(AppendedSoFar) = 3

\* a string without a leading or trailing whitespace character and without a
\* line break
IsTrimmedText(b) ==
    /\ b # ""
    /\ Strip(b) = b
    /\ ~Contains("\n", b)

\* C27: in extract_education, extract_experience and extract_projects every
\* block is a non-empty string of trimmed non-blank lines joined by single
\* spaces, every line in the accumulator is trimmed and non-blank, and while
\* the scan is outside the section the accumulator is empty.
C27_BlocksNonEmpty ==
    (op \in BlockExtractors) =>
        LET table == LineTable(OwnKeywords(op))
            within(i, j) == Sorted({ m \in table.appended : i <= m /\ m <= j })
        IN /\ \A k \in DOMAIN blocks :
                 /\ IsTrimmedText(blocks[k])
                 /\ \E i \in 1..(idx - 1) : \E j \in i..(idx - 1) :
                       blocks[k] = JoinSpace([n \in DOMAIN within(i, j) |->
                                                table.stripped[within(i, j)[n]]])
           /\ \A k \in DOMAIN current_entry : IsTrimmedText(current_entry[k])
           /\ ~in_section => current_entry = <<>>
           /\ pc = "done" => \A k \in DOMAIN result : IsTrimmedText(result[k])

\* a blank line read inside the section while the accumulator is empty, and a
\* closed section: one block, no empty one
C27_Witness ==
    /\ ExtractorDone /\ op \in BlockExtractors
    /\ ~in_section
    /\ Len(result) = 1
    /\ \E i \in 2..Len(lines) : InsideAt(i) /\ StrippedLine(i) = "" /\ ~AppendedAt(i - 1)

-----------------------------------------------------------------------------
(* extract_summary on documents with prose in the first lines *)

\* a header with content (2 words), prose of 3 words, prose that holds
\* "email" inside a longer word, prose that holds the word "Email", a blank line
SMLines == {"Profile: dev", "I am dev", "sent emails to all", "my Email is x", ""}

\* what follows the first lines: nothing, two more lines of prose the second
\* with a contact word, or a bare header and its content
SMTails == {<<>>, <<"I am dev", "my Email is x">>, <<"Summary", "I am dev">>}

SMTexts == { JoinLines(ls \o tl) : ls \in SeqsUpTo(SMLines, MaxLines), tl \in SMTails }

InitSM ==
    /\ op = "extract_summary"
    /\ pc = "start"
    /\ text \in SMTexts
    /\ required_skills = <<>>
    /\ lowered = ""
    /\ idx = 0
    /\ found_skills = <<>>
    /\ missing_skills = <<>>
    /\ scores = <<>>
    /\ lines = <<>>
    /\ in_section = FALSE
    /\ current_entry = <<>>
    /\ blocks = <<>>
    /\ result = "none"
    /\ InitExt

NextSM == SMStart \/ SMLoop \/ SMReturn

SpecSM == InitSM /\ [][NextSM]_vars

SummaryScanned == op = "extract_summary" /\ pc \in {"loop", "done"}

\* the first up to five non-blank lines of the document, trimmed
LeadingLines ==
    LET order == Sorted({ i \in 1..Len(lines) : StrippedLine(i) # "" })
        n == IF Len(order) < 5 THEN Len(order) ELSE 5
    IN [k \in 1..n |-> StrippedLine(order[k])]

LeadingText == JoinSpace(LeadingLines)

\* (a) the first of them holds no summary keyword
FirstLineIsNoHeader ==
    /\ LeadingLines # <<>>
    /\ \A k \in DOMAIN summary_keywords :
          ~Contains(summary_keywords[k], Lower(LeadingLines[1]))

\* (b) more than 10 words
MoreThanTenWords == WordCount(LeadingText) > 10

\* (c) as the keywords of a section are looked for: anywhere in the text
NoContactSubstring ==
    \A k \in DOMAIN contact_words : ~Contains(contact_words[k], Lower(LeadingText))

\* (c) as a word of its own
NoContactWord ==
    \A k \in DOMAIN contact_words : ~SearchWholeWord(contact_words[k], Lower(LeadingText))

\* the runs of the section with these keywords in document order, from tables of what
\* each line is: a line of the section's own (own), a line that closes it
\* (closer), a line read inside the section (inside), a line that goes to the
\* accumulator (appended), a line that ends a run (ends)
RunsOf(keywords) ==
    LET n == Len(lines)
        stripped == [i \in 1..n |-> Strip(lines[i])]
        own == [i \in 1..n |-> AnyKeywordIn(keywords, stripped[i])]
        closer == [i \in 1..n |->
                     /\ stripped[i] # ""
                     /\ ~own[i]
                     /\ AnyKeywordIn(document_types[1].keywords, stripped[i])]
        inside == [i \in 1..n |->
                     \E j \in 1..(i - 1) : own[j] /\ \A k \in (j + 1)..(i - 1) : ~closer[k]]
        appended == { i \in 1..n :
                        \/ own[i] /\ ~AnyKeywordIs(keywords, stripped[i])
                        \/ ~own[i] /\ inside[i] /\ ~closer[i] /\ stripped[i] # "" }
        ends == { i \in 1..n : ~own[i] /\ inside[i] /\ (closer[i] \/ stripped[i] = "") }
        starts == { i \in appended :
                      \A j \in appended : j < i => \E b \in ends : j < b /\ b < i }
        first == Sorted(starts)
        members(g) == Sorted({ j \in appended :
                                 /\ j >= first[g]
                                 /\ \A k \in starts : ~(first[g] < k /\ k <= j) })
    IN [g \in DOMAIN first |->
          JoinSpace([k \in DOMAIN members(g) |-> stripped[members(g)[k]]])]

\* the runs of the explicit summary section
ExplicitRuns == RunsOf(summary_keywords)

\* C22 as stated, the contact words looked for like the keywords of a section,
\* anywhere in the joined text: the implicit summary is made iff (a), (b) and
\* (c) hold, and the blocks of the explicit scan follow it unchanged.
C22_ImplicitIffNoContactSubstring ==
    SummaryScanned =>
        LET implicit == IF FirstLineIsNoHeader /\ MoreThanTenWords /\ NoContactSubstring
                        THEN <<LeadingText>> ELSE <<>>
        IN /\ idx = 1 => blocks = implicit
           /\ pc = "done" => blocks = implicit \o ExplicitRuns

\* C22: extract_summary makes an implicit summary of the first up to five
\* non-blank lines iff (a) the first of them holds no summary keyword, (b)
\* their joined text has more than 10 words and (c) the joined text holds none
\* of the contact words as a word of its own, in any case of letters; the scan
\* for the explicit header runs on the whole text whatever the outcome, and
\* its blocks follow the implicit summary.
C22_ImplicitIffNoContactWord ==
    SummaryScanned =>
        LET implicit == IF FirstLineIsNoHeader /\ MoreThanTenWords /\ NoContactWord
                        THEN <<LeadingText>> ELSE <<>>
        IN /\ idx = 1 => blocks = implicit
           /\ pc = "done" => blocks = implicit \o ExplicitRuns

\* prose with "emails" in the first lines and a header with content after it:
\* both an implicit summary and an explicit block
C22_Witness ==
    /\ op = "extract_summary" /\ pc = "done"
    /\ FirstLineIsNoHeader /\ MoreThanTenWords /\ NoContactWord
    /\ ~NoContactSubstring
    /\ Len(blocks) = 2
    /\ blocks[1] = LeadingText
    /\ ExplicitRuns = <<"Profile: dev">>

\* C29: extract_summary returns one string: the implicit summary, if the
\* first lines made one, then the blocks of the explicit scan in document
\* order, all joined with single spaces; the string is empty iff there is
\* neither an implicit summary nor an explicit block.
C29_SummaryString ==
    (op = "extract_summary" /\ pc = "done") =>
        LET implicit == IF FirstLineIsNoHeader /\ MoreThanTenWords /\ NoContactWord
                        THEN <<LeadingText>> ELSE <<>>
            parts == implicit \o ExplicitRuns
        IN /\ IsSequenceOfStrings(<<result>>)
           /\ result = JoinSpace(parts)
           /\ (result = "") <=> (implicit = <<>> /\ ExplicitRuns = <<>>)
           /\ \A k \in DOMAIN parts : parts[k] # ""

\* six non-blank lines: five of them make the implicit summary, the header
\* with content among them opens the section and the sixth line, with a
\* contact word, is in the explicit block only
C29_Witness ==
    /\ op = "extract_summary" /\ pc = "done"
    /\ Len(lines) = 6 /\ \A i \in 1..6 : StrippedLine(i) # ""
    /\ FirstLineIsNoHeader /\ MoreThanTenWords /\ NoContactWord
    /\ Len(ExplicitRuns) = 1
    /\ Contains("Email", ExplicitRuns[1])
    /\ result = LeadingText \o " " \o ExplicitRuns[1]

-----------------------------------------------------------------------------
(* The five rules of check_formatting, one by one *)

\* a line that is upper-case, or a sequence of capitalised words once trimmed
HeaderLikeLine(l) == IsUpper(l) \/ HeaderPattern(Strip(l))

\* a non-blank line whose first character after trimming is a bullet glyph
BulletLine(l) == Strip(l) # "" /\ Ch(Strip(l), 1) \in bullet_chars

\* the five rules: the place in the function, the points and the reason
RuleTable ==
    << [at |-> "length", points |-> TooShortPenalty, reason |-> TooShortReason],
       [at |-> "headers", points |-> HeaderPenalty, reason |-> HeaderReason],
       [at |-> "bullets", points |-> BulletPenalty, reason |-> BulletReason],
       [at |-> "spacing", points |-> SpacingPenalty, reason |-> SpacingReason],
       [at |-> "contact", points |-> ContactPenalty, reason |-> ContactReason] >>

\* the condition of rule r on the text alone
RuleHolds(r) ==
    LET ls == SplitLines(text)
    IN CASE r = 1 -> Len(text) < MinLength
         [] r = 2 -> \A k \in DOMAIN ls : ~HeaderLikeLine(ls[k])
         [] r = 3 -> \A k \in DOMAIN ls : ~BulletLine(ls[k])
         [] r = 4 -> \E k \in 1..(Len(ls) - 1) : Strip(ls[k]) = "" /\ Strip(ls[k + 1]) = ""
         [] r = 5 -> ~(SearchEmail(text) \/ SearchPhone(text) \/ SearchLinkedIn(text))

\* C23: each of the five rules of check_formatting deducts its points and
\* adds its reason iff its own condition holds on the text, whatever the
\* score and the reasons the rules before it have left; a rule whose
\* condition does not hold changes nothing; so the reasons returned are those
\* of the rules whose condition holds, each of the 32 outcomes being decided
\* rule by rule.
C23_RulesIndependent ==
    /\ [][\A r \in DOMAIN RuleTable :
            (op = "check_formatting" /\ pc = RuleTable[r].at) =>
                IF RuleHolds(r)
                THEN /\ format_score' = format_score - RuleTable[r].points
                     /\ deductions' = Append(deductions, RuleTable[r].reason)
                ELSE /\ format_score' = format_score
                     /\ deductions' = deductions]_vars
    /\ [](CFDone =>
            \A r \in DOMAIN RuleTable :
                RuleHolds(r) <=>
                    (\E k \in DOMAIN result[2] : result[2][k] = RuleTable[r].reason))

\* a long text with a header, a bullet and an email and with two blank lines
\* running: the spacing rule alone deducts, after three rules that did not
C23_Witness ==
    /\ CFDone
    /\ result = <<FullScore - SpacingPenalty, <<SpacingReason>>>>
    /\ \A r \in DOMAIN RuleTable : RuleHolds(r) <=> (r = 4)

-----------------------------------------------------------------------------
(* extract_skills on sections with and without separators *)

\* a bare header, an entry without separator, an entry with two different
\* separators, an entry with one separator and spaces around it, a blank
\* line, a line that closes the section
SKLines == {"Skills", "Dev", "a/b - c", " Go, SQL ", "", "Teamwork"}

SKTexts == { JoinLines(ls) : ls \in SeqsUpTo(SKLines, MaxLines) }

InitSK ==
    /\ op = "extract_skills"
    /\ pc = "start"
    /\ text \in SKTexts
    /\ required_skills = <<>>
    /\ lowered = ""
    /\ idx = 0
    /\ found_skills = <<>>
    /\ missing_skills = <<>>
    /\ scores = <<>>
    /\ lines = <<>>
    /\ in_section = FALSE
    /\ current_entry = <<>>
    /\ blocks = <<>>
    /\ result = "none"
    /\ self_document_types = document_types
    /\ calls = 1
    /\ hash_order \in {"insertion", "reversed"}
    /\ skills_type = "list"
    /\ format_score = 0
    /\ deductions = <<>>
    /\ frames = <<>>
    /\ thread = 1
    /\ history = <<>>
    /\ world = NoWorld
    /\ events = <<>>

NextSK == SKStart \/ SKLoop \/ SKReturn

SpecSK == InitSK /\ [][NextSK]_vars

SkillsDone == op = "extract_skills" /\ pc = "done"

\* the separators that occur in a block
SeparatorsIn(b) == { separators[c] : c \in { d \in DOMAIN separators : Contains(separators[d], b) } }

\* x is what lies between two neighbouring occurrences of c in b (or an end
\* of b), trimmed
IsPieceOf(x, b, c) ==
    \E i \in 1..(Len(b) + 1) : \E j \in (i - 1)..Len(b) :
        /\ i = 1 \/ Ch(b, i - 1) = c
        /\ j = Len(b) \/ Ch(b, j + 1) = c
        /\ \A k \in i..j : Ch(b, k) # c
        /\ x = Strip(SubSeq(b, i, j))

\* C28: extract_skills returns a list without duplicates of non-empty trimmed
\* strings, each a piece of one flushed block between occurrences of one
\* separator that the block holds; every such piece is in the list; a block
\* without separator gives nothing, so the list is empty when no block holds
\* a separator.
C28_SkillsArePieces ==
    SkillsDone =>
        LET runs == RunsOf(skills_keywords)
        IN /\ NoDuplicates(result)
           /\ \A k \in DOMAIN result :
                 /\ result[k] # ""
                 /\ Strip(result[k]) = result[k]
                 /\ \E g \in DOMAIN runs : \E c \in SeparatorsIn(runs[g]) :
                       IsPieceOf(result[k], runs[g], c)
           /\ (\A g \in DOMAIN runs : SeparatorsIn(runs[g]) = {}) => result = <<>>
           /\ \A g \in DOMAIN runs : \A c \in SeparatorsIn(runs[g]) :
                 \A x \in Range(StrippedPieces(runs[g], c)) :
                     \E k \in DOMAIN result : result[k] = x

\* a block without separator, then a block with two separators: the pieces
\* of the second, split at each of the two, and nothing of the first
C28_Witness ==
    /\ SkillsDone
    /\ RunsOf(skills_keywords) = <<"Dev", "a/b - c">>
    /\ Range(result) = {"a", "b - c", "a/b", "c"}
    /\ Len(result) = 4

-----------------------------------------------------------------------------
(* check_resume_sections *)

\* lines 83-88, in declaration (= dict iteration) order
essential_sections == <<
    [section |-> "contact",
     keywords |-> <<"email", "phone", "address", "linkedin">>],
    [section |-> "education",
     keywords |-> <<"education", "university", "college", "degree", "academic">>],
    [section |-> "experience",
     keywords |-> <<"experience", "work", "employment", "job", "internship">>],
    [section |-> "skills",
     keywords |-> <<"skills", "technologies", "tools", "proficiencies", "expertise">>] >>

\* line 93: the points of one section
SectionPoints == 25

\* a + b and min(a, b) for exact rationals with positive denominators
RatAdd(a, b) == Ratio(a.num * b.den + b.num * a.den, a.den * b.den)

RatMin(a, b) == IF RatLess(b, a) THEN b ELSE a

RatEq(a, b) == a.num * b.den = b.num * a.den

\* the count of the keywords that are words of their own in the text
SectionFoundWholeWord(keywords, t) ==
    Cardinality({ k \in DOMAIN keywords : SearchWholeWord(keywords[k], t) })

\* line 92: sum(1 for keyword in keywords if keyword in text)
SectionFound(keywords, t) ==
    Cardinality({ k \in DOMAIN keywords : Contains(keywords[k], t) })

\* line 93: min(25, (found / len(keywords)) * 25); the floating-point value
\* is this rational exactly, for every count the four lists allow
SectionScore(keywords, t) ==
    RatMin(Ratio(SectionPoints, 1),
           Ratio(SectionFound(keywords, t) * SectionPoints, Len(keywords)))

\* line 95: sum(section_scores.values())
RECURSIVE RatSum(_)
RatSum(values) ==
    IF values = <<>> THEN Ratio(0, 1)
    ELSE RatAdd(Head(values), RatSum(Tail(values)))

\* the four sections with all their keywords, a line with one contact keyword
\* in capitals, a line with "job" inside a longer word and one more keyword
RSPieces == {
    "Email phone address LinkedIn",
    "education university college degree academic",
    "Experience work employment job internship",
    "skills technologies tools proficiencies expertise",
    "My EMAIL",
    "jobs at college" }

MaxRSPieces == 4

RSTexts == { JoinSpace(ps) : ps \in SeqsUpTo(RSPieces, MaxRSPieces) }

InitRS ==
    /\ op = "check_resume_sections"
    /\ pc = "start"
    /\ text \in RSTexts
    /\ required_skills = <<>>
    /\ lowered = ""
    /\ idx = 0
    /\ found_skills = <<>>
    /\ missing_skills = <<>>
    /\ scores = <<>>
    /\ lines = <<>>
    /\ in_section = FALSE
    /\ current_entry = <<>>
    /\ blocks = <<>>
    /\ result = Ratio(0, 1)
    /\ InitExt

\* lines 82-90
RSStart ==
    /\ op = "check_resume_sections" /\ pc = "start"
    /\ lowered' = Lower(text)
    /\ scores' = <<>>
    /\ idx' = 1
    /\ pc' = "loop"
    /\ UNCHANGED <<op, text, required_skills, found_skills, missing_skills, lines,
                   in_section, current_entry, blocks, result>>
    /\ UNCHANGED ext

\* lines 91-93: one section
RSLoop ==
    /\ op = "check_resume_sections" /\ pc = "loop"
    /\ idx <= Len(essential_sections)
    /\ scores' = Append(scores, SectionScore(essential_sections[idx].keywords, lowered))
    /\ idx' = idx + 1
    /\ UNCHANGED <<op, pc, text, required_skills, lowered, found_skills, missing_skills,
                   lines, in_section, current_entry, blocks, result>>
    /\ UNCHANGED ext

\* line 95
RSReturn ==
    /\ op = "check_resume_sections" /\ pc = "loop"
    /\ idx > Len(essential_sections)
    /\ result' = RatSum(scores)
    /\ pc' = "done"
    /\ UNCHANGED <<op, text, required_skills, lowered, idx, found_skills, missing_skills,
                   scores, lines, in_section, current_entry, blocks>>
    /\ UNCHANGED ext

NextRS == RSStart \/ RSLoop \/ RSReturn

SpecRS == InitRS /\ [][NextRS]_vars

RSDone == op = "check_resume_sections" /\ pc = "done"

\* for each section, the keywords that occur in the lower-cased text
Occurring ==
    LET low == Lower(text)
    IN [g \in DOMAIN essential_sections |->
          { k \in DOMAIN essential_sections[g].keywords :
              Contains(essential_sections[g].keywords[k], low) }]

\* C30: check_resume_sections returns the sum of the scores of the four
\* sections contact, education, experience and skills; the score of a section
\* is 25 x (keywords of the section that are substrings of the lower-cased
\* text) / (keywords of the section) and lies in [0, 25]; the total lies in
\* [0, 100], is 0 when no keyword occurs, and is 100 exactly when every
\* keyword of the four lists occurs.
C30_SectionScores ==
    RSDone =>
        LET occurring == Occurring
        IN /\ Len(scores) = 4
           /\ [g \in 1..4 |-> essential_sections[g].section] =
                 <<"contact", "education", "experience", "skills">>
           /\ \A g \in 1..4 :
                 /\ RatEq(scores[g], Ratio(SectionPoints * Cardinality(occurring[g]),
                                           Len(essential_sections[g].keywords)))
                 /\ ~RatLess(scores[g], Ratio(0, 1))
                 /\ ~RatLess(Ratio(SectionPoints, 1), scores[g])
           /\ RatEq(result, RatAdd(RatAdd(scores[1], scores[2]), RatAdd(scores[3], scores[4])))
           /\ result.den > 0
           /\ ~RatLess(result, Ratio(0, 1))
           /\ ~RatLess(Ratio(100, 1), result)
           /\ (\A g \in 1..4 : occurring[g] = {}) => RatEq(result, Ratio(0, 1))
           /\ RatEq(result, Ratio(100, 1)) <=>
                 \A g \in 1..4 : occurring[g] = DOMAIN essential_sections[g].keywords

\* "My EMAIL jobs at college": one contact keyword of four, one education
\* keyword and one experience keyword of five, no skills keyword: 6.25 + 5 + 5
C30_Witness ==
    /\ RSDone
    /\ Contains("EMAIL", text) /\ Contains("jobs", text)
    /\ RatEq(result, Ratio(65, 4))
    /\ [g \in 1..4 |-> Cardinality(Occurring[g])] = <<1, 1, 1, 0>>

-----------------------------------------------------------------------------
(* launcher.py: main *)

\* what platform.system() returns, what exists on disk, how the two
\* subprocess calls end
LauncherWorlds ==
    [kind : {"launcher"},
     system : {"Linux", "Windows", "Darwin"},
     setup_script_exists : BOOLEAN,
     setup_run : {"returncode 0", "returncode 1", "raises"},
     app_script_exists : BOOLEAN,
     popen : {"started", "raises"}]

\* the name `result` of main is not bound before subprocess.run has returned
Unbound == [unbound |-> TRUE]

InitLaunch ==
    /\ op = "main"
    /\ pc = "start"
    /\ text = ""
    /\ required_skills = <<>>
    /\ lowered = ""
    /\ idx = 0
    /\ found_skills = <<>>
    /\ missing_skills = <<>>
    /\ scores = <<>>
    /\ lines = <<>>
    /\ in_section = FALSE
    /\ current_entry = <<>>
    /\ blocks = <<>>
    /\ result = Unbound
    /\ self_document_types = document_types
    /\ calls = 1
    /\ hash_order = "insertion"
    /\ skills_type = "list"
    /\ format_score = 0
    /\ deductions = <<>>
    /\ frames = <<>>
    /\ thread = 1
    /\ history = <<>>
    /\ world \in LauncherWorlds
    /\ events = <<>>

\* a step of main: the position, the local `result` and the effects change
LaunchStep(next, local, effects) ==
    /\ pc' = next
    /\ result' = local
    /\ events' = events \o effects
    /\ UNCHANGED <<op, text, required_skills, lowered, idx, found_skills, missing_skills,
                   scores, lines, in_section, current_entry, blocks, self_document_types,
                   calls, hash_order, skills_type, format_score, deductions, frames, thread,
                   history, world>>

\* lines 10-20
LMStart ==
    /\ op = "main" /\ pc = "start"
    /\ LaunchStep("setup", result,
                  <<"print: starting", "print: detected OS " \o world.system>>)

\* lines 23, 35-36: no setup script
LMSetupSkip ==
    /\ op = "main" /\ pc = "setup"
    /\ ~world.setup_script_exists
    /\ LaunchStep("launch", result, <<"print: no setup script">>)

\* lines 23-31: subprocess.run returns, or raises before `result` is bound
LMSetupRun ==
    /\ op = "main" /\ pc = "setup"
    /\ world.setup_script_exists
    /\ CASE world.setup_run = "returncode 0" ->
               LaunchStep("launch", [returncode |-> 0], <<"run: setup">>)
         [] world.setup_run = "returncode 1" ->
               LaunchStep("launch", [returncode |-> 1],
                          <<"run: setup", "print: setup failed">>)
         [] world.setup_run = "raises" ->
               LaunchStep("except", result, <<"run: setup">>)

\* lines 32-34: the handler reads result.returncode; with `result` unbound
\* that raises UnboundLocalError inside the handler, which nothing catches:
\* the interpreter prints the traceback and exits with status 1
LMSetupExcept ==
    /\ op = "main" /\ pc = "except"
    /\ IF result = Unbound
       THEN LaunchStep("done", result, <<"uncaught: UnboundLocalError", "exit: 1">>)
       ELSE LaunchStep("launch", result,
                       IF result.returncode # 0 THEN <<"print: chromedriver error">>
                       ELSE <<>>)

\* lines 38-56
LMLaunch ==
    /\ op = "main" /\ pc = "launch"
    /\ IF ~world.app_script_exists
       THEN LaunchStep("done", result,
                       <<"print: launching", "print: script not found", "exit: 1">>)
       ELSE IF world.popen = "raises"
       THEN LaunchStep("done", result,
                       <<"print: launching", "popen: streamlit",
                         "print: error starting", "exit: 1">>)
       ELSE LaunchStep("done", result,
                       <<"print: launching", "popen: streamlit",
                         "print: launched", "exit: 0">>)

NextLaunch == LMStart \/ LMSetupSkip \/ LMSetupRun \/ LMSetupExcept \/ LMLaunch

SpecLaunch == InitLaunch /\ [][NextLaunch]_vars

Happened(e) == \E k \in DOMAIN events : events[k] = e

LauncherDone == op = "main" /\ pc = "done"

\* the setup step was run and failed
SetupFailed ==
    /\ world.setup_script_exists
    /\ world.setup_run \in {"returncode 1", "raises"}
    /\ Happened("run: setup")

\* C25: in launcher.main a failed chromedriver setup (a non-zero exit code,
\* or an exception raised by starting the subprocess) does not keep main from
\* going on to the launch of the Streamlit application, and main exits with
\* status 1 only when the application script is missing or starting it raises.
C25_SetupNeverPreventsLaunch ==
    LauncherDone =>
        /\ SetupFailed => Happened("print: launching")
        /\ (SetupFailed /\ world.app_script_exists) => Happened("popen: streamlit")
        /\ Happened("exit: 1") => (~world.app_script_exists \/ world.popen = "raises")

-----------------------------------------------------------------------------
(* ai_resume_analyzer.py: AIResumeAnalyzer.extract_text_from_pdf *)

\* a page whose text extraction raises
PageError == "<page raises>"

\* how one extraction method ends: opening the file raises, or the pages give
\* these texts
Opened(pages) == [raises |-> FALSE, pages |-> pages]

OpenFails == [raises |-> TRUE, pages |-> <<>>]

\* lines 1-8 of the module are one string literal: the module binds none of
\* the names os, tempfile, pdfplumber, pypdf, st, warnings, pytesseract,
\* convert_from_path; they are found at call time only if the program that
\* imports the module has put them into its namespace
PDFWorlds ==
    [kind : {"pdf"},
     names_bound : BOOLEAN,
     pdf_file : {"getbuffer", "read", "bytes"},
     pdfplumber : {OpenFails, Opened(<<>>), Opened(<<" ", "">>),
                   Opened(<<PageError, " Jane Doe ">>)},
     pypdf : {OpenFails, Opened(<<"">>), Opened(<<"J Doe", PageError>>),
              Opened(<<"J Doe", "">>)},
     ocr : {OpenFails, Opened(<<>>), Opened(<<" ", "">>), Opened(<<"Jane", "D0e ">>)}]

InitPDF ==
    /\ op = "extract_text_from_pdf"
    /\ pc = "start"
    /\ text = ""
    /\ required_skills = <<>>
    /\ lowered = ""
    /\ idx = 0
    /\ found_skills = <<>>
    /\ missing_skills = <<>>
    /\ scores = <<>>
    /\ lines = <<>>
    /\ in_section = FALSE
    /\ current_entry = <<>>
    /\ blocks = <<>>
    /\ result = "none"
    /\ self_document_types = document_types
    /\ calls = 1
    /\ hash_order = "insertion"
    /\ skills_type = "list"
    /\ format_score = 0
    /\ deductions = <<>>
    /\ frames = <<>>
    /\ thread = 1
    /\ history = <<>>
    /\ world \in PDFWorlds
    /\ events = <<>>

\* lines 47-59: text += page_text + "\n" for each page with text; a page that
\* raises is skipped
RECURSIVE PlumberText(_)
PlumberText(pages) ==
    IF pages = <<>> THEN ""
    ELSE (IF Head(pages) \in {PageError, ""} THEN "" ELSE Head(pages) \o "\n")
         \o PlumberText(Tail(pages))

\* lines 74-76: pdf_text += page_text + "\n" for each page with text
RECURSIVE PyPDFText(_)
PyPDFText(pages) ==
    IF pages = <<>> THEN ""
    ELSE (IF Head(pages) = "" THEN "" ELSE Head(pages) \o "\n") \o PyPDFText(Tail(pages))

\* lines 116-119: ocr_text += page_text + "\n" for each image
RECURSIVE OCRText(_)
OCRText(pages) ==
    IF pages = <<>> THEN "" ELSE Head(pages) \o "\n" \o OCRText(Tail(pages))

\* an extraction that raises: no page is read, or one page raises
Fails(outcome) == outcome.raises \/ \E k \in DOMAIN outcome.pages : outcome.pages[k] = PageError

\* a step of extract_text_from_pdf: the position, the local `text`, the value
\* returned ("none" while there is none) and the effects change
PDFStep(next, local, value, effects) ==
    /\ pc' = next
    /\ text' = local
    /\ result' = value
    /\ events' = events \o effects
    /\ UNCHANGED <<op, required_skills, lowered, idx, found_skills, missing_skills,
                   scores, lines, in_section, current_entry, blocks, self_document_types,
                   calls, hash_order, skills_type, format_score, deductions, frames, thread,
                   history, world>>

\* lines 29-41: the temporary file and the copy of the upload into it
PTStart ==
    /\ op = "extract_text_from_pdf" /\ pc = "start"
    /\ IF ~world.names_bound
       THEN PDFStep("done", "", result, <<"raise: NameError">>)
       ELSE PDFStep("pdfplumber", "", result,
                    <<"create: temp file">>
                    \o (CASE world.pdf_file = "getbuffer" -> <<"pdf_file.getbuffer()">>
                          [] world.pdf_file = "read" -> <<"pdf_file.read()", "pdf_file.seek(0)">>
                          [] world.pdf_file = "bytes" -> <<>>))

\* lines 43-66
PTPlumber ==
    /\ op = "extract_text_from_pdf" /\ pc = "pdfplumber"
    /\ LET extracted == IF world.pdfplumber.raises THEN ""
                        ELSE PlumberText(world.pdfplumber.pages)
       IN IF Strip(extracted) # ""
          THEN PDFStep("done", extracted, Strip(extracted),
                       <<"try: pdfplumber", "unlink: temp file">>)
          ELSE PDFStep("pypdf", extracted, result, <<"try: pdfplumber">>)

\* lines 68-82
PTPyPDF ==
    /\ op = "extract_text_from_pdf" /\ pc = "pypdf"
    /\ LET pdf_text == PyPDFText(world.pypdf.pages)
       IN IF ~Fails(world.pypdf) /\ Strip(pdf_text) # ""
          THEN PDFStep("done", text, Strip(pdf_text), <<"try: pypdf", "unlink: temp file">>)
          ELSE PDFStep("ocr", text, result, <<"try: pypdf">>)

\* lines 84-142
PTOCR ==
    /\ op = "extract_text_from_pdf" /\ pc = "ocr"
    /\ LET ocr_text == OCRText(world.ocr.pages)
       IN IF ~Fails(world.ocr) /\ Strip(ocr_text) # ""
          THEN PDFStep("done", text, Strip(ocr_text), <<"try: ocr", "unlink: temp file">>)
          ELSE PDFStep("cleanup", text, result, <<"try: ocr">>)

\* lines 144-152
PTCleanup ==
    /\ op = "extract_text_from_pdf" /\ pc = "cleanup"
    /\ PDFStep("done", text, "", <<"unlink: temp file", "st.error: all methods failed">>)

NextPDF == PTStart \/ PTPlumber \/ PTPyPDF \/ PTOCR \/ PTCleanup

SpecPDF == InitPDF /\ [][NextPDF]_vars

PDFDone == op = "extract_text_from_pdf" /\ pc = "done"

\* the place of the first occurrence of an effect, 0 if there is none
PlaceOf(e) ==
    IF Happened(e) THEN CHOOSE k \in DOMAIN events :
                            events[k] = e /\ \A j \in 1..(k - 1) : events[j] # e
    ELSE 0

\* what each method finds in this file, "" if it fails or finds only whitespace
Found ==
    [pdfplumber |-> IF world.pdfplumber.raises THEN ""
                    ELSE Strip(PlumberText(world.pdfplumber.pages)),
     pypdf |-> IF Fails(world.pypdf) THEN "" ELSE Strip(PyPDFText(world.pypdf.pages)),
     ocr |-> IF Fails(world.ocr) THEN "" ELSE Strip(OCRText(world.ocr.pages))]

\* C26: extract_text_from_pdf tries pdfplumber, then PyPDF, then OCR, a later
\* method only when each earlier one failed or found only whitespace; it
\* returns the text of the first method that found some, or "" when none
\* did, and raises nothing; whenever it returns, the temporary file it made
\* has been deleted.
C26_FirstTextInOrder ==
    PDFDone =>
        /\ ~Happened("raise: NameError")
        /\ result = (IF Found.pdfplumber # "" THEN Found.pdfplumber
                     ELSE IF Found.pypdf # "" THEN Found.pypdf
                     ELSE Found.ocr)
        /\ Happened("try: pdfplumber")
        /\ Happened("try: pypdf") <=> (Found.pdfplumber = "")
        /\ Happened("try: ocr") <=> (Found.pdfplumber = "" /\ Found.pypdf = "")
        /\ Happened("try: pypdf") => PlaceOf("try: pdfplumber") < PlaceOf("try: pypdf")
        /\ Happened("try: ocr") => PlaceOf("try: pypdf") < PlaceOf("try: ocr")
        /\ Happened("create: temp file")
        /\ Cardinality({ k \in DOMAIN events : events[k] = "unlink: temp file" }) = 1

-----------------------------------------------------------------------------
(* config/database.py: the operations on the PostgreSQL database *)

\* each function: what surrounds its `with get_database_connection()` block
\* ("none": no try statement; "return": except Exception prints and returns;
\* "raise": except Exception prints and re-raises), what the except branch
\* returns, and how many cursor.execute calls the block makes
db_operations == <<
    [name |-> "init_database", handler |-> "none", fallback |-> "", executes |-> 6],
    [name |-> "save_resume_data", handler |-> "return", fallback |-> "None", executes |-> 1],
    [name |-> "save_analysis_data", handler |-> "return", fallback |-> "None", executes |-> 1],
    [name |-> "get_resume_stats", handler |-> "return", fallback |-> "None", executes |-> 3],
    [name |-> "log_admin_action", handler |-> "return", fallback |-> "None", executes |-> 1],
    [name |-> "get_admin_logs", handler |-> "return", fallback |-> "[]", executes |-> 1],
    [name |-> "get_all_resume_data", handler |-> "return", fallback |-> "[]", executes |-> 1],
    [name |-> "verify_admin", handler |-> "return", fallback |-> "False", executes |-> 1],
    [name |-> "add_admin", handler |-> "return", fallback |-> "False", executes |-> 1],
    [name |-> "save_ai_analysis_data", handler |-> "raise", fallback |-> "", executes |-> 1],
    [name |-> "get_ai_analysis_stats", handler |-> "return",
     fallback |-> "{total_analyses: 0, average_score: 0, top_job_roles: []}", executes |-> 3],
    [name |-> "get_detailed_ai_analysis_stats", handler |-> "return",
     fallback |-> "{total_analyses: 0, average_score: 0, top_job_roles: [], ...}",
     executes |-> 10],
    [name |-> "reset_ai_analysis_stats", handler |-> "return",
     fallback |-> "{success: False, message: ...}", executes |-> 1] >>

Operation(name) == db_operations[CHOOSE k \in DOMAIN db_operations : db_operations[k].name = name]

\* lines 358-363, 401-411: the two statistics functions return after the
\* first query when the table is empty
Executes(name, empty) ==
    IF empty /\ name \in {"get_ai_analysis_stats", "get_detailed_ai_analysis_stats"}
    THEN 1 ELSE Operation(name).executes

\* the function called, whether ai_analysis is empty, and the database call
\* that fails: none (0), the connection (1), the k-th query (1 + k), the
\* commit on leaving the with block (2 + the number of queries)
DBCalls ==
    { c \in [name : { db_operations[k].name : k \in DOMAIN db_operations },
             empty : BOOLEAN,
             fails_at : 0..12] :
        c.fails_at <= Executes(c.name, c.empty) + 2 }

InitDB ==
    /\ \E c \in DBCalls :
          /\ op = c.name
          /\ world = [kind |-> "database", empty |-> c.empty, fails_at |-> c.fails_at]
    /\ pc = "start"
    /\ text = ""
    /\ required_skills = <<>>
    /\ lowered = ""
    /\ idx = 0
    /\ found_skills = <<>>
    /\ missing_skills = <<>>
    /\ scores = <<>>
    /\ lines = <<>>
    /\ in_section = FALSE
    /\ current_entry = <<>>
    /\ blocks = <<>>
    /\ result = "none"
    /\ self_document_types = document_types
    /\ calls = 1
    /\ hash_order = "insertion"
    /\ skills_type = "list"
    /\ format_score = 0
    /\ deductions = <<>>
    /\ frames = <<>>
    /\ thread = 1
    /\ history = <<>>
    /\ events = <<>>

IsDBCall == world.kind = "database"

\* a step of a database function: the position, the number of queries made,
\* the value returned ("none" while there is none) and the effects change
DBStep(next, made, value, effects) ==
    /\ pc' = next
    /\ idx' = made
    /\ result' = value
    /\ events' = events \o effects
    /\ UNCHANGED <<op, text, required_skills, lowered, found_skills, missing_skills,
                   scores, lines, in_section, current_entry, blocks, self_document_types,
                   calls, hash_order, skills_type, format_score, deductions, frames, thread,
                   history, world>>

\* lines 8-14: get_database_connection, psycopg2.connect(uri)
DBConnect ==
    /\ IsDBCall /\ pc = "start"
    /\ IF world.fails_at = 1
       THEN DBStep("except", 0, result, <<"error: connect">>)
       ELSE DBStep("execute", 0, result, <<"connect">>)

\* one cursor.execute of the with block
DBExecute ==
    /\ IsDBCall /\ pc = "execute"
    /\ idx < Executes(op, world.empty)
    /\ IF world.fails_at = idx + 2
       THEN DBStep("except", idx, result, <<"error: execute", "rollback">>)
       ELSE DBStep("execute", idx + 1, result, <<"execute">>)

\* the end of the with block: the connection commits, the function returns
DBCommit ==
    /\ IsDBCall /\ pc = "execute"
    /\ idx = Executes(op, world.empty)
    /\ IF world.fails_at = idx + 2
       THEN DBStep("except", idx, result, <<"error: commit">>)
       ELSE DBStep("done", idx, "value of " \o op, <<"commit">>)

\* the exception leaves the with block: the except branch, if there is one
DBExcept ==
    /\ IsDBCall /\ pc = "except"
    /\ CASE Operation(op).handler = "return" ->
               DBStep("done", idx, Operation(op).fallback, <<"print: error">>)
         [] Operation(op).handler = "raise" ->
               DBStep("done", idx, result, <<"print: error", "raise">>)
         [] Operation(op).handler = "none" ->
               DBStep("done", idx, result, <<"raise">>)

NextDB == DBConnect \/ DBExecute \/ DBCommit \/ DBExcept

SpecDB == InitDB /\ [][NextDB]_vars

DBDone == IsDBCall /\ pc = "done"

DBFailed == \E k \in DOMAIN events : events[k] \in {"error: connect", "error: execute", "error: commit"}

\* C24: every function of the database layer, when the connection or one of
\* its queries fails, catches the exception, prints it and returns its
\* fallback value; none lets the exception out to its caller.
C24_FailuresHandled ==
    (DBDone /\ DBFailed) =>
        /\ Happened("print: error")
        /\ ~Happened("raise")
        /\ result # "none"

====
